---- MODULE Spec2Model ----
(***************************************************************************)
(* A model of packages/marshal/src/marshal.js: the pass-style classifier,  *)
(* the remotable registry, the encoder (serialize) with its replacer ibid  *)
(* table and slot table, JSON text as a token sequence, and the decoder    *)
(* (unserialize / fullRevive) with its reviver ibid table and cycle        *)
(* policy.                                                                 *)
(*                                                                         *)
(* JavaScript values are records [k, s, n]: k is the kind, s a text        *)
(* payload, n a numeric payload.  Objects live in a heap and are named by  *)
(* their identity: Ref(i) is the caller's object i, Out(i) is the i-th     *)
(* object allocated by the running unserialize call.                       *)
(***************************************************************************)
EXTENDS Integers, Sequences, FiniteSets, TLC

VARIABLES heap, registry, errorCount, ser, unser, rem, obs, pure

vars == <<heap, registry, errorCount, ser, unser, rem, obs, pure>>

(***************************************************************************)
(* Values                                                                  *)
(***************************************************************************)
Val(k, s, n) == [k |-> k, s |-> s, n |-> n]
Undefined == Val("undefined", "", 0)
Null == Val("null", "", 0)
Bool(s) == Val("boolean", s, 0)
Num(n) == Val("number", "", n)
NegZero == Val("number", "-0", 0)
NaN == Val("number", "NaN", 0)
PosInfinity == Val("number", "Infinity", 0)
NegInfinity == Val("number", "-Infinity", 0)
BigInt(digits) == Val("bigint", digits, 0)
Str(s) == Val("string", s, 0)
SymbolAsyncIterator == Val("symbol", "Symbol.asyncIterator", 0)
SymbolOther == Val("symbol", "Symbol.iterator", 0)
Function == Val("function", "", 0)
Ref(i) == Val("ref", "", i)
Out(i) == Val("out", "", i)
Slot(i) == Val("slot", "", i)

IsObject(v) == v.k \in {"ref", "out"}

(***************************************************************************)
(* Heap objects.  kind is "object" (a plain object whose prototype is      *)
(* Object.prototype), "array", "error" or "promise"; keys are the own      *)
(* property names in creation order and vals their values (for an array,   *)
(* vals are the elements and keys is empty).                               *)
(***************************************************************************)
Obj(kind, frozen, keys, vals, name, message) ==
  [kind |-> kind, frozen |-> frozen, keys |-> keys, vals |-> vals,
   name |-> name, message |-> message]
PlainObject(keys, vals) == Obj("object", TRUE, keys, vals, "", "")
ArrayObject(vals) == Obj("array", TRUE, <<>>, vals, "", "")
ErrorObject(name, message) == Obj("error", TRUE, <<>>, <<>>, name, message)
PromiseObject == Obj("promise", TRUE, <<>>, <<>>, "", "")

\* The property names of the model, in the order of Array.prototype.sort
\* (ascending UTF-16 code units: digits, then "@", then lower-case letters).
NameOrder ==
  <<"10", "8", "9", "@qclass", "a", "b", "digits", "errorId", "iface",
    "index", "m", "message", "name", "then">>

Rank(name) == CHOOSE i \in 1..Len(NameOrder) : NameOrder[i] = name

\* The names that are canonical array indices, with their numeric value.
ArrayIndexValue == ("8" :> 8) @@ ("9" :> 9) @@ ("10" :> 10)

IsArrayIndex(name) == name \in DOMAIN ArrayIndexValue

\* Position of name in keys, 0 when absent.
KeyPos(keys, name) ==
  IF \E i \in 1..Len(keys) : keys[i] = name
  THEN CHOOSE i \in 1..Len(keys) : keys[i] = name
  ELSE 0

\* val[name] for an own property; undefined when absent.
GetProp(o, name) ==
  IF KeyPos(o.keys, name) = 0 THEN Undefined ELSE o.vals[KeyPos(o.keys, name)]

RECURSIVE InsertSorted(_, _)
InsertSorted(name, sorted) ==
  IF sorted = <<>> THEN <<name>>
  ELSE IF Rank(name) < Rank(Head(sorted)) THEN <<name>> \o sorted
  ELSE <<Head(sorted)>> \o InsertSorted(name, Tail(sorted))

\* names.sort() with the default comparator.
RECURSIVE SortNames(_)
SortNames(names) ==
  IF names = <<>> THEN <<>>
  ELSE InsertSorted(Head(names), SortNames(Tail(names)))

\* the array indices among names, in order.
RECURSIVE SelectIndex(_)
SelectIndex(names) ==
  IF names = <<>> THEN <<>>
  ELSE IF IsArrayIndex(Head(names))
       THEN <<Head(names)>> \o SelectIndex(Tail(names))
       ELSE SelectIndex(Tail(names))

\* the other names, in order.
RECURSIVE SelectNonIndex(_)
SelectNonIndex(names) ==
  IF names = <<>> THEN <<>>
  ELSE IF IsArrayIndex(Head(names))
       THEN SelectNonIndex(Tail(names))
       ELSE <<Head(names)>> \o SelectNonIndex(Tail(names))

RECURSIVE InsertByIndex(_, _)
InsertByIndex(name, sorted) ==
  IF sorted = <<>> THEN <<name>>
  ELSE IF ArrayIndexValue[name] < ArrayIndexValue[Head(sorted)]
       THEN <<name>> \o sorted
       ELSE <<Head(sorted)>> \o InsertByIndex(name, Tail(sorted))

RECURSIVE SortByIndex(_)
SortByIndex(names) ==
  IF names = <<>> THEN <<>>
  ELSE InsertByIndex(Head(names), SortByIndex(Tail(names)))

\* The order in which an ordinary object enumerates its own string keys
\* (Reflect.ownKeys, Object.getOwnPropertyNames, Object.entries,
\* JSON.stringify): array indices in ascending numeric order, then the
\* other names in creation order.
OwnKeys(keys) == SortByIndex(SelectIndex(keys)) \o SelectNonIndex(keys)

\* A property named by a symbol and not by a string.  Such a name is among
\* Reflect.ownKeys(val), and val has it (`in`), but it is not among
\* Object.getOwnPropertyNames(val) nor Object.entries(val).
SymbolName == "Symbol(s)"
IsSymbolName(name) == name = SymbolName
HasSymbolName(keys) == \E i \in 1..Len(keys) : IsSymbolName(keys[i])

\* The positions in keys of the properties named by strings.
StringNamed(keys) == {i \in 1..Len(keys) : ~IsSymbolName(keys[i])}

(***************************************************************************)
(* Remotable registry                                                      *)
(***************************************************************************)
REMOTE_STYLE == "presence"
QCLASS == "@qclass"
NoIface == ""

\* remotableToInterface.get(maybeRemotable); NoIface stands for undefined.
getInterfaceOf(reg, v) ==
  IF v.k = "ref" /\ v.n \in DOMAIN reg THEN reg[v.n] ELSE NoIface

errorConstructors ==
  {"Error", "EvalError", "RangeError", "ReferenceError", "SyntaxError",
   "TypeError", "URIError"}

\* The name of the constructor getErrorConstructor(name) || Error yields.
getErrorConstructor(name) ==
  IF name \in errorConstructors THEN name ELSE "Error"

(***************************************************************************)
(* Pass-style classifier.  A result that starts with "!" is a throw.       *)
(***************************************************************************)
Throws(style) == style \in
  {"!reserved", "!notFrozen", "!thenable", "!badError", "!badArray",
   "!notRemotable", "!function", "!nonObject"}

isPassByCopyError(o) ==
  IF o.kind # "error" THEN "false"
  ELSE IF o.name \notin errorConstructors THEN "!badError"
  ELSE "true"

isPassByCopyArray(o) ==
  IF o.kind # "array" THEN "false"
  ELSE IF \E i \in 1..Len(o.vals) : o.vals[i].k = "function" THEN "!badArray"
  ELSE "true"

\* descEntries is Object.entries(Object.getOwnPropertyDescriptors(val)):
\* the properties named by strings.
isPassByCopyRecord(o) ==
  IF o.kind # "object" THEN "false"
  ELSE IF StringNamed(o.keys) = {} THEN "false"
  ELSE IF \E i \in StringNamed(o.keys) : o.vals[i].k = "function"
       THEN "false"
  ELSE "true"

\* names is Object.getOwnPropertyNames(val): the properties named by
\* strings.
assertCanBeRemotable(o) ==
  IF o.kind = "array" THEN "!notRemotable"
  ELSE IF o.kind = "error" THEN "!notRemotable"
  ELSE IF \E i \in StringNamed(o.keys) : o.vals[i].k # "function"
       THEN "!notRemotable"
  ELSE "ok"

mustPassByRemote(h, reg, v) ==
  IF ~h[v.n].frozen THEN "!notFrozen"
  ELSE IF getInterfaceOf(reg, v) = NoIface
       THEN assertCanBeRemotable(h[v.n])
       ELSE "ok"

\* Variant of passStyleOf without the check of the reserved name.
passStyleOfObject_noReserved(h, reg, v) ==
  LET o == h[v.n] IN
  IF getInterfaceOf(reg, v) # NoIface THEN REMOTE_STYLE
  ELSE IF ~o.frozen THEN "!notFrozen"
  ELSE IF o.kind = "promise" THEN "promise"
  ELSE IF GetProp(o, "then").k = "function" THEN "!thenable"
  ELSE IF isPassByCopyError(o) # "false"
       THEN (IF isPassByCopyError(o) = "true" THEN "copyError"
             ELSE isPassByCopyError(o))
  ELSE IF isPassByCopyArray(o) # "false"
       THEN (IF isPassByCopyArray(o) = "true" THEN "copyArray"
             ELSE isPassByCopyArray(o))
  ELSE IF isPassByCopyRecord(o) = "true" THEN "copyRecord"
  ELSE IF mustPassByRemote(h, reg, v) = "ok" THEN REMOTE_STYLE
  ELSE mustPassByRemote(h, reg, v)

\* Variant of passStyleOf that looks at the hardening before the reserved
\* name.
passStyleOfObject_frozenFirst(h, reg, v) ==
  LET o == h[v.n] IN
  IF getInterfaceOf(reg, v) # NoIface THEN REMOTE_STYLE
  ELSE IF ~o.frozen THEN "!notFrozen"
  ELSE IF KeyPos(o.keys, QCLASS) # 0 THEN "!reserved"
  ELSE IF o.kind = "promise" THEN "promise"
  ELSE IF GetProp(o, "then").k = "function" THEN "!thenable"
  ELSE IF isPassByCopyError(o) # "false"
       THEN (IF isPassByCopyError(o) = "true" THEN "copyError"
             ELSE isPassByCopyError(o))
  ELSE IF isPassByCopyArray(o) # "false"
       THEN (IF isPassByCopyArray(o) = "true" THEN "copyArray"
             ELSE isPassByCopyArray(o))
  ELSE IF isPassByCopyRecord(o) = "true" THEN "copyRecord"
  ELSE IF mustPassByRemote(h, reg, v) = "ok" THEN REMOTE_STYLE
  ELSE mustPassByRemote(h, reg, v)

passStyleOfObject(h, reg, v) ==
  LET o == h[v.n] IN
  IF getInterfaceOf(reg, v) # NoIface THEN REMOTE_STYLE
  ELSE IF KeyPos(o.keys, QCLASS) # 0 THEN "!reserved"
  ELSE IF ~o.frozen THEN "!notFrozen"
  ELSE IF o.kind = "promise" THEN "promise"
  ELSE IF GetProp(o, "then").k = "function" THEN "!thenable"
  ELSE IF isPassByCopyError(o) # "false"
       THEN (IF isPassByCopyError(o) = "true" THEN "copyError"
             ELSE isPassByCopyError(o))
  ELSE IF isPassByCopyArray(o) # "false"
       THEN (IF isPassByCopyArray(o) = "true" THEN "copyArray"
             ELSE isPassByCopyArray(o))
  ELSE IF isPassByCopyRecord(o) = "true" THEN "copyRecord"
  ELSE IF mustPassByRemote(h, reg, v) = "ok" THEN REMOTE_STYLE
  ELSE mustPassByRemote(h, reg, v)

passStyleOf(h, reg, v) ==
  CASE v.k = "ref" -> passStyleOfObject(h, reg, v)
    [] v.k = "null" -> "null"
    [] v.k = "function" -> "!function"
    [] v.k \in {"undefined", "string", "boolean", "number", "bigint",
                "symbol"} -> v.k
    [] OTHER -> "!nonObject"

(***************************************************************************)
(* Plain JSON data: the encoder's output tree and JSON.parse's result.     *)
(* t is "null", "boolean", "number", "string", "array" or "object"; an     *)
(* object's keys are held in its own-key enumeration order.                *)
(***************************************************************************)
JNode(t, s, n, keys, kids) ==
  [t |-> t, s |-> s, n |-> n, keys |-> keys, kids |-> kids]
JNull == JNode("null", "", 0, <<>>, <<>>)
JBool(s) == JNode("boolean", s, 0, <<>>, <<>>)
JNum(n) == JNode("number", "", n, <<>>, <<>>)
JStr(s) == JNode("string", s, 0, <<>>, <<>>)
JArr(kids) == JNode("array", "", 0, <<>>, kids)

\* The values of entries (names, kids) laid out in the order order; a name
\* given twice keeps its last value.
EntryValue(names, kids, name) ==
  kids[CHOOSE i \in 1..Len(names) :
         /\ names[i] = name
         /\ \A j \in (i+1)..Len(names) : names[j] # name]

RECURSIVE Dedup(_)
Dedup(names) ==
  IF names = <<>> THEN <<>>
  ELSE LET init == SubSeq(names, 1, Len(names) - 1)
           last == names[Len(names)]
       IN IF \E i \in 1..Len(init) : init[i] = last
          THEN Dedup(init)
          ELSE Dedup(init) \o <<last>>

\* An ordinary object created by defining the entries in the given order
\* (an object literal, Object.fromEntries, JSON.parse of an object).
ObjectFromEntries(names, kids) ==
  LET order == OwnKeys(Dedup(names)) IN
  JNode("object", "", 0, order,
        [i \in 1..Len(order) |-> EntryValue(names, kids, order[i])])

JField(node, name) == node.kids[KeyPos(node.keys, name)]
JHas(node, name) == node.t = "object" /\ KeyPos(node.keys, name) # 0

(***************************************************************************)
(* Encoder state: the slot list and slot map, the replacer ibid table, the *)
(* marshal's error counter, and a log of what the encoder did (in order):  *)
(* "add" val index     ibidTable.add gave val the ibid index               *)
(* "ibid" val index    an ibid envelope was emitted for val                *)
(* "valToSlot" val i   convertValToSlot(val) was called, result in slots[i]*)
(* "slot" val index    a slot envelope was emitted for val                 *)
(* "errorId" val n     nextErrorId() returned the id numbered n for val    *)
(***************************************************************************)
Event(ev, val, index) == [ev |-> ev, val |-> val, index |-> index]

\* Variant of the encoder's state in which the ibid numbering goes on from
\* a count that outlives the call.
EncState_carried(count) ==
  [slots |-> <<>>, slotMap |-> <<>>, ibidMap |-> <<>>, ibidCount |-> count,
   errorCount |-> count, log |-> <<>>, ok |-> TRUE, err |-> ""]

EncState(count) ==
  [slots |-> <<>>, slotMap |-> <<>>, ibidMap |-> <<>>, ibidCount |-> 0,
   errorCount |-> count, log |-> <<>>, ok |-> TRUE, err |-> ""]

\* Map.has / Map.get on a map held as a sequence of [key, val] entries in
\* the order they were set.
MapHas(map, key) == \E i \in 1..Len(map) : map[i].key = key
MapGet(map, key) ==
  map[CHOOSE i \in 1..Len(map) :
        /\ map[i].key = key
        /\ \A j \in (i+1)..Len(map) : map[j].key # key].val
MapSet(map, key, val) == Append(map, [key |-> key, val |-> val])

\* Variant of ibidTable.add that never advances the running count.
ibidTableAdd_sameCount(st, obj) ==
  [st EXCEPT !.ibidMap = MapSet(st.ibidMap, obj, st.ibidCount),
             !.log = Append(st.log, Event("add", obj, st.ibidCount))]

\* makeReplacerIbidTable
ibidTableHas(st, obj) == MapHas(st.ibidMap, obj)
ibidTableGet(st, obj) == MapGet(st.ibidMap, obj)
ibidTableAdd(st, obj) ==
  [st EXCEPT !.ibidMap = MapSet(st.ibidMap, obj, st.ibidCount),
             !.ibidCount = st.ibidCount + 1,
             !.log = Append(st.log, Event("add", obj, st.ibidCount))]

\* The caller's val -> slot translator: object i is known as slot i.
convertValToSlot(val) == Slot(val.n)
\* The caller's slot -> val translator: slot i stands for object i; a slot
\* it does not know (undefined included) comes back as it is.
convertSlotToVal(slot, iface) == IF slot.k = "slot" THEN Ref(slot.n) ELSE slot

\* Variant of nextErrorId that leaves the counter where it is.
nextErrorId_stuck(st) == st

nextErrorId(st) == [st EXCEPT !.errorCount = st.errorCount + 1]
ErrorIdText(n) == "error:anon-marshal#" \o ToString(n)

\* Variant of serializeSlot that puts a new slot at the front of the list
\* (slots.unshift) while still numbering it by the former length.
serializeSlot_unshift(val, st, iface) ==
  LET slotIndex == Len(st.slots)
      st1 == [st EXCEPT
                !.slots = <<convertValToSlot(val)>> \o st.slots,
                !.slotMap = MapSet(st.slotMap, val, slotIndex),
                !.log = st.log \o <<Event("valToSlot", val, slotIndex),
                                    Event("slot", val, slotIndex)>>]
  IN [tree |-> IF iface = NoIface
               THEN ObjectFromEntries(<<QCLASS, "index">>,
                                      <<JStr("slot"), JNum(slotIndex)>>)
               ELSE ObjectFromEntries(<<QCLASS, "iface", "index">>,
                                      <<JStr("slot"), JStr(iface),
                                        JNum(slotIndex)>>),
      st |-> st1]

\* Variant of serializeSlot that numbers a new slot by the length of the
\* list after the push.
serializeSlot_after(val, st, iface) ==
  LET known == MapHas(st.slotMap, val)
      slotIndex == IF known THEN MapGet(st.slotMap, val)
                   ELSE Len(st.slots) + 1
      st1 == IF known THEN st
             ELSE [st EXCEPT
                     !.slots = Append(st.slots, convertValToSlot(val)),
                     !.slotMap = MapSet(st.slotMap, val, slotIndex),
                     !.log = Append(st.log,
                                    Event("valToSlot", val, slotIndex))]
      st2 == [st1 EXCEPT !.log = Append(st1.log,
                                        Event("slot", val, slotIndex))]
  IN [tree |-> IF iface = NoIface
               THEN ObjectFromEntries(<<QCLASS, "index">>,
                                      <<JStr("slot"), JNum(slotIndex)>>)
               ELSE ObjectFromEntries(<<QCLASS, "iface", "index">>,
                                      <<JStr("slot"), JStr(iface),
                                        JNum(slotIndex)>>),
      st |-> st2]

\* Returns [tree, st].
serializeSlot(val, st, iface) ==
  LET known == MapHas(st.slotMap, val)
      slotIndex == IF known THEN MapGet(st.slotMap, val) ELSE Len(st.slots)
      st1 == IF known THEN st
             ELSE [st EXCEPT
                     !.slots = Append(st.slots, convertValToSlot(val)),
                     !.slotMap = MapSet(st.slotMap, val, slotIndex),
                     !.log = Append(st.log,
                                    Event("valToSlot", val, slotIndex))]
      st2 == [st1 EXCEPT !.log = Append(st1.log,
                                        Event("slot", val, slotIndex))]
  IN [tree |-> IF iface = NoIface
               THEN ObjectFromEntries(<<QCLASS, "index">>,
                                      <<JStr("slot"), JNum(slotIndex)>>)
               ELSE ObjectFromEntries(<<QCLASS, "iface", "index">>,
                                      <<JStr("slot"), JStr(iface),
                                        JNum(slotIndex)>>),
      st |-> st2]

Envelope(qclass) == ObjectFromEntries(<<QCLASS>>, <<JStr(qclass)>>)
Failed(st, err) == [tree |-> JNull, st |-> [st EXCEPT !.ok = FALSE, !.err = err]]

encodePrimitive(val, passStyle, st) ==
  CASE passStyle = "null" -> [tree |-> JNull, st |-> st]
    [] passStyle = "undefined" -> [tree |-> Envelope("undefined"), st |-> st]
    [] passStyle = "string" -> [tree |-> JStr(val.s), st |-> st]
    [] passStyle = "boolean" -> [tree |-> JBool(val.s), st |-> st]
    [] passStyle = "number" ->
         [tree |-> CASE val.s = "NaN" -> Envelope("NaN")
                     [] val.s = "-0" -> JNum(0)
                     [] val.s = "Infinity" -> Envelope("Infinity")
                     [] val.s = "-Infinity" -> Envelope("-Infinity")
                     [] OTHER -> JNum(val.n),
          st |-> st]
    [] passStyle = "bigint" ->
         [tree |-> ObjectFromEntries(<<QCLASS, "digits">>,
                                     <<JStr("bigint"), JStr(val.s)>>),
          st |-> st]
    [] passStyle = "symbol" ->
         IF val = SymbolAsyncIterator
         THEN [tree |-> Envelope("@@asyncIterator"), st |-> st]
         ELSE Failed(st, "!symbol")

IsPrimitiveStyle(passStyle) == passStyle \in
  {"null", "undefined", "string", "boolean", "number", "bigint", "symbol"}

RECURSIVE encode(_, _, _, _)
RECURSIVE encodeEach(_, _, _, _)

\* names.map(name => encode(val[name])) and val.map(encode): the elements
\* are encoded from left to right; a throw ends the walk.  [trees, st]
encodeEach(h, reg, vals, st) ==
  IF vals = <<>> \/ ~st.ok THEN [trees |-> <<>>, st |-> st]
  ELSE LET first == encode(h, reg, Head(vals), st)
           rest == encodeEach(h, reg, Tail(vals), first.st)
       IN [trees |-> <<first.tree>> \o rest.trees, st |-> rest.st]

\* Reflect.ownKeys(val).sort() converts the names it compares to strings,
\* which throws a TypeError for a symbol.
encodeCopyRecord(h, reg, val, st) ==
  LET o == h[val.n]
      names == SortNames(OwnKeys(o.keys))
      each == encodeEach(h, reg,
                         [i \in 1..Len(names) |-> GetProp(o, names[i])], st)
  IN IF Len(o.keys) > 1 /\ HasSymbolName(o.keys)
     THEN Failed(st, "!symbolName")
     ELSE IF each.st.ok
     THEN [tree |-> ObjectFromEntries(names, each.trees), st |-> each.st]
     ELSE [tree |-> JNull, st |-> each.st]

encodeCopyArray(h, reg, val, st) ==
  LET each == encodeEach(h, reg, h[val.n].vals, st)
  IN IF each.st.ok
     THEN [tree |-> JArr(each.trees), st |-> each.st]
     ELSE [tree |-> JNull, st |-> each.st]

encodeCopyError(h, val, st) ==
  LET st1 == nextErrorId(st)
      st2 == [st1 EXCEPT !.log = Append(st1.log,
                                 Event("errorId", val, st1.errorCount))]
  IN [tree |-> ObjectFromEntries(
                 <<QCLASS, "errorId", "message", "name">>,
                 <<JStr("error"), JStr(ErrorIdText(st1.errorCount)),
                   JStr(h[val.n].message), JStr(h[val.n].name)>>),
      st |-> st2]

\* Variant of the ibid envelope that always names the first entry of the
\* table.
ibidEnvelope_first(st, val) ==
  [tree |-> ObjectFromEntries(<<QCLASS, "index">>,
                              <<JStr("ibid"), JNum(0)>>),
   st |-> [st EXCEPT !.log = Append(st.log,
                                    Event("ibid", val, ibidTableGet(st, val)))]]

ibidEnvelope(st, val) ==
  [tree |-> ObjectFromEntries(<<QCLASS, "index">>,
                              <<JStr("ibid"), JNum(ibidTableGet(st, val))>>),
   st |-> [st EXCEPT !.log = Append(st.log,
                               Event("ibid", val, ibidTableGet(st, val)))]]

\* Variant of the encoder that looks a remote or a promise up in the slot
\* map before the ibid table, so that each of its places gets a slot
\* envelope.
encodeObject_slotFirst(h, reg, val, passStyle, st) ==
  IF passStyle \in {REMOTE_STYLE, "promise"}
  THEN serializeSlot(val,
                     IF ibidTableHas(st, val) THEN st ELSE ibidTableAdd(st, val),
                     IF passStyle = REMOTE_STYLE THEN getInterfaceOf(reg, val)
                     ELSE NoIface)
  ELSE IF ibidTableHas(st, val) THEN ibidEnvelope(st, val)
  ELSE LET st1 == ibidTableAdd(st, val) IN
       CASE passStyle = "copyRecord" -> encodeCopyRecord(h, reg, val, st1)
         [] passStyle = "copyArray" -> encodeCopyArray(h, reg, val, st1)
         [] passStyle = "copyError" -> encodeCopyError(h, val, st1)
         [] OTHER -> Failed(st1, "!passStyle")

encodeObject(h, reg, val, passStyle, st) ==
  IF ibidTableHas(st, val) THEN ibidEnvelope(st, val)
  ELSE LET st1 == ibidTableAdd(st, val) IN
       CASE passStyle = "copyRecord" -> encodeCopyRecord(h, reg, val, st1)
         [] passStyle = "copyArray" -> encodeCopyArray(h, reg, val, st1)
         [] passStyle = "copyError" -> encodeCopyError(h, val, st1)
         [] passStyle = REMOTE_STYLE ->
              serializeSlot(val, st1, getInterfaceOf(reg, val))
         [] passStyle = "promise" -> serializeSlot(val, st1, NoIface)
         [] OTHER -> Failed(st1, "!passStyle")

encode(h, reg, val, st) ==
  LET passStyle == passStyleOf(h, reg, val) IN
  IF Throws(passStyle) THEN Failed(st, passStyle)
  ELSE IF IsPrimitiveStyle(passStyle) THEN encodePrimitive(val, passStyle, st)
  ELSE encodeObject(h, reg, val, passStyle, st)

(***************************************************************************)
(* JSON text, held as its sequence of tokens.                              *)
(***************************************************************************)
Tok(t, s, n) == [t |-> t, s |-> s, n |-> n]
Punct(s) == Tok("punct", s, 0)

RECURSIVE JSONstringify(_)
RECURSIVE stringifyItems(_)
RECURSIVE stringifyMembers(_, _)

stringifyItems(kids) ==
  IF kids = <<>> THEN <<>>
  ELSE JSONstringify(Head(kids))
       \o (IF Len(kids) > 1 THEN <<Punct(",")>> ELSE <<>>)
       \o stringifyItems(Tail(kids))

stringifyMembers(keys, kids) ==
  IF keys = <<>> THEN <<>>
  ELSE <<Tok("string", Head(keys), 0), Punct(":")>>
       \o JSONstringify(Head(kids))
       \o (IF Len(keys) > 1 THEN <<Punct(",")>> ELSE <<>>)
       \o stringifyMembers(Tail(keys), Tail(kids))

JSONstringify(node) ==
  CASE node.t = "null" -> <<Tok("literal", "null", 0)>>
    [] node.t = "boolean" -> <<Tok("literal", node.s, 0)>>
    [] node.t = "number" -> <<Tok("number", "", node.n)>>
    [] node.t = "string" -> <<Tok("string", node.s, 0)>>
    [] node.t = "array" ->
         <<Punct("[")>> \o stringifyItems(node.kids) \o <<Punct("]")>>
    [] node.t = "object" ->
         <<Punct("{")>> \o stringifyMembers(node.keys, node.kids)
           \o <<Punct("}")>>

\* Recursive descent over the tokens: [ok, node, rest].
ParseFail == [ok |-> FALSE, node |-> JNull, rest |-> <<>>]
Parsed(node, rest) == [ok |-> TRUE, node |-> node, rest |-> rest]
IsPunct(toks, s) == toks # <<>> /\ Head(toks) = Punct(s)

RECURSIVE parseValue(_)
RECURSIVE parseItems(_, _)
RECURSIVE parseMembers(_, _, _)

\* toks follow "[" or a ","; kids are the elements read so far.
parseItems(toks, kids) ==
  LET item == parseValue(toks) IN
  IF ~item.ok THEN ParseFail
  ELSE IF IsPunct(item.rest, "]")
       THEN Parsed(JArr(Append(kids, item.node)), Tail(item.rest))
  ELSE IF IsPunct(item.rest, ",")
       THEN parseItems(Tail(item.rest), Append(kids, item.node))
  ELSE ParseFail

\* toks follow "{" or a ","; names and kids are the members read so far.
parseMembers(toks, names, kids) ==
  IF Len(toks) < 2 \/ toks[1].t # "string" \/ toks[2] # Punct(":")
  THEN ParseFail
  ELSE LET item == parseValue(Tail(Tail(toks)))
           names1 == Append(names, toks[1].s)
       IN IF ~item.ok THEN ParseFail
          ELSE IF IsPunct(item.rest, "}")
               THEN Parsed(ObjectFromEntries(names1, Append(kids, item.node)),
                           Tail(item.rest))
          ELSE IF IsPunct(item.rest, ",")
               THEN parseMembers(Tail(item.rest), names1,
                                 Append(kids, item.node))
          ELSE ParseFail

parseValue(toks) ==
  IF toks = <<>> THEN ParseFail
  ELSE LET tok == Head(toks) rest == Tail(toks) IN
       CASE tok.t = "literal" ->
              Parsed(IF tok.s = "null" THEN JNull ELSE JBool(tok.s), rest)
         [] tok.t = "number" -> Parsed(JNum(tok.n), rest)
         [] tok.t = "string" -> Parsed(JStr(tok.s), rest)
         [] tok = Punct("[") ->
              IF IsPunct(rest, "]") THEN Parsed(JArr(<<>>), Tail(rest))
              ELSE parseItems(rest, <<>>)
         [] tok = Punct("{") ->
              IF IsPunct(rest, "}")
              THEN Parsed(ObjectFromEntries(<<>>, <<>>), Tail(rest))
              ELSE parseMembers(rest, <<>>, <<>>)
         [] OTHER -> ParseFail

\* JSON.parse(text): [ok, node]; the whole text must be one value.
JSONparse(toks) ==
  LET r == parseValue(toks) IN
  IF r.ok /\ r.rest = <<>> THEN [ok |-> TRUE, node |-> r.node]
  ELSE [ok |-> FALSE, node |-> JNull]

(***************************************************************************)
(* Decoder state: the reviver ibid table (ibids, unfinishedIbids), the     *)
(* objects allocated so far (out), and a log of the table's operations:    *)
(* "start" val index      start(val) appended val at index, marked         *)
(* "register" val index   register(val) appended val at index              *)
(* "finish" val 0         finish(val) unmarked val                         *)
(* "get" val index        get(index) returned val                          *)
(* "cycle" val index      get(index) found val unfinished                  *)
(***************************************************************************)
DecState ==
  [ibids |-> <<>>, unfinishedIbids |-> {}, out |-> <<>>, log |-> <<>>,
   ok |-> TRUE, err |-> ""]

Thrown(ds, err) ==
  [val |-> Undefined, ds |-> [ds EXCEPT !.ok = FALSE, !.err = err]]

CyclePolicies == {"allowCycles", "warnOfCycles", "forbidCycles"}

\* Nat(allegedIndex) accepts a non-negative integer number only.
IsNat(node) == node.t = "number" /\ node.n >= 0

\* Variant of the reviver table's get in which only allowCycles lets an
\* unfinished referent through.
reviverGet_onlyAllow(cyclePolicy, node, ds) ==
  IF ~IsNat(node) THEN Thrown(ds, "!Nat")
  ELSE IF node.n >= Len(ds.ibids) THEN Thrown(ds, "!ibidRange")
  ELSE LET result == ds.ibids[node.n + 1] IN
       IF result \in ds.unfinishedIbids /\ cyclePolicy # "allowCycles"
       THEN Thrown(ds, "!ibidCycle")
       ELSE [val |-> result,
             ds |-> [ds EXCEPT !.log = Append(ds.log,
                                              Event("get", result, node.n))]]

\* Variant of the reviver table's get without the range check: an index
\* past the end of ibids reads undefined, as an array read does.
reviverGet_noRange(cyclePolicy, node, ds) ==
  IF ~IsNat(node) THEN Thrown(ds, "!Nat")
  ELSE LET result == IF node.n < Len(ds.ibids) THEN ds.ibids[node.n + 1]
                     ELSE Undefined
       IN IF result \in ds.unfinishedIbids /\ cyclePolicy = "forbidCycles"
          THEN Thrown(ds, "!ibidCycle")
          ELSE [val |-> result,
                ds |-> [ds EXCEPT !.log = Append(ds.log,
                                                 Event("get", result, node.n))]]

\* makeReviverIbidTable(cyclePolicy).get
reviverGet(cyclePolicy, node, ds) ==
  IF ~IsNat(node) THEN Thrown(ds, "!Nat")
  ELSE IF node.n >= Len(ds.ibids) THEN Thrown(ds, "!ibidRange")
  ELSE LET result == ds.ibids[node.n + 1]
           ds1 == [ds EXCEPT !.log = Append(ds.log,
                                            Event("get", result, node.n))]
           ds2 == [ds EXCEPT !.log = Append(ds.log,
                                            Event("cycle", result, node.n))]
       IN IF result \in ds.unfinishedIbids
          THEN CASE cyclePolicy = "allowCycles" ->
                      [val |-> result, ds |-> ds2]
                 [] cyclePolicy = "warnOfCycles" ->
                      [val |-> result, ds |-> ds2]
                 [] cyclePolicy = "forbidCycles" -> Thrown(ds2, "!ibidCycle")
                 [] OTHER -> Thrown(ds2, "!cyclePolicy")
          ELSE [val |-> result, ds |-> ds1]

\* makeReviverIbidTable(cyclePolicy).register
reviverRegister(ds, obj) ==
  [ds EXCEPT !.ibids = Append(ds.ibids, obj),
             !.log = Append(ds.log, Event("register", obj, Len(ds.ibids)))]

\* Variant of the reviver table's start that does not mark the object as
\* unfinished.
reviverStart_unmarked(ds, obj) ==
  [ds EXCEPT !.ibids = Append(ds.ibids, obj),
             !.log = Append(ds.log, Event("start", obj, Len(ds.ibids)))]

\* makeReviverIbidTable(cyclePolicy).start
reviverStart(ds, obj) ==
  [ds EXCEPT !.ibids = Append(ds.ibids, obj),
             !.unfinishedIbids = ds.unfinishedIbids \cup {obj},
             !.log = Append(ds.log, Event("start", obj, Len(ds.ibids)))]

\* Variant of the reviver table's finish that leaves the object marked.
reviverFinish_marked(ds, obj) ==
  [ds EXCEPT !.log = Append(ds.log, Event("finish", obj, 0))]

\* makeReviverIbidTable(cyclePolicy).finish
reviverFinish(ds, obj) ==
  [ds EXCEPT !.unfinishedIbids = ds.unfinishedIbids \ {obj},
             !.log = Append(ds.log, Event("finish", obj, 0))]

\* A fresh object: [] or {} (not yet frozen), or a hardened error.
Allocate(ds, o) == [ds EXCEPT !.out = Append(ds.out, o)]

\* result[name] = val, and result[i] = val for an array (name is "").
SetProp(ds, result, name, val) ==
  [ds EXCEPT !.out[result.n] =
     [@ EXCEPT !.keys = IF name = "" THEN @ ELSE Append(@, name),
               !.vals = Append(@, val)]]

\* A parsed primitive as a value.
PrimitiveOf(node) ==
  CASE node.t = "null" -> Null
    [] node.t = "boolean" -> Bool(node.s)
    [] node.t = "number" -> Num(node.n)
    [] node.t = "string" -> Str(node.s)

\* rawTree[name]; a missing property reads as undefined, which is no
\* string and no number.
JMissing == JNode("undefined", "", 0, <<>>, <<>>)
JGet(node, name) == IF JHas(node, name) THEN JField(node, name) ELSE JMissing

reviveError(rawTree, ds) ==
  IF JGet(rawTree, "name").t # "string" THEN Thrown(ds, "!errorName")
  ELSE IF JGet(rawTree, "message").t # "string"
       THEN Thrown(ds, "!errorMessage")
  ELSE LET ds1 == Allocate(ds,
                    ErrorObject(getErrorConstructor(JGet(rawTree, "name").s),
                                JGet(rawTree, "message").s))
           error == Out(Len(ds1.out))
       IN [val |-> error, ds |-> reviverRegister(ds1, error)]

reviveSlot(slots, rawTree, ds) ==
  IF ~IsNat(JGet(rawTree, "index")) THEN Thrown(ds, "!Nat")
  ELSE LET index == JGet(rawTree, "index").n
           slot == IF index < Len(slots) THEN slots[index + 1] ELSE Undefined
           iface == IF JGet(rawTree, "iface").t = "string"
                    THEN JGet(rawTree, "iface").s ELSE NoIface
           val == convertSlotToVal(slot, iface)
           ds1 == [ds EXCEPT !.log = Append(ds.log,
                                            Event("slotToVal", slot, index))]
       IN [val |-> val, ds |-> reviverRegister(ds1, val)]

reviveQclass(slots, cyclePolicy, rawTree, ds) ==
  LET qclass == JField(rawTree, QCLASS) IN
  IF qclass.t # "string" THEN Thrown(ds, "!qclassType")
  ELSE CASE qclass.s = "undefined" -> [val |-> Undefined, ds |-> ds]
         [] qclass.s = "NaN" -> [val |-> NaN, ds |-> ds]
         [] qclass.s = "Infinity" -> [val |-> PosInfinity, ds |-> ds]
         [] qclass.s = "-Infinity" -> [val |-> NegInfinity, ds |-> ds]
         [] qclass.s = "bigint" ->
              IF JGet(rawTree, "digits").t # "string"
              THEN Thrown(ds, "!digits")
              ELSE [val |-> BigInt(JGet(rawTree, "digits").s), ds |-> ds]
         [] qclass.s = "@@asyncIterator" ->
              [val |-> SymbolAsyncIterator, ds |-> ds]
         [] qclass.s = "ibid" ->
              reviverGet(cyclePolicy, JGet(rawTree, "index"), ds)
         [] qclass.s = "error" -> reviveError(rawTree, ds)
         [] qclass.s = "slot" -> reviveSlot(slots, rawTree, ds)
         [] OTHER -> Thrown(ds, "!qclass")

RECURSIVE fullRevive(_, _, _, _)
RECURSIVE reviveInto(_, _, _, _, _, _)

\* The loops of the array and record branches: the children kids (with
\* their names; "" for array elements) are revived in order, each stored
\* into result as soon as it is revived; a throw ends the loop.
reviveInto(slots, cyclePolicy, result, names, kids, ds) ==
  IF kids = <<>> \/ ~ds.ok THEN ds
  ELSE LET r == fullRevive(slots, cyclePolicy, Head(kids), ds)
       IN IF ~r.ds.ok THEN r.ds
          ELSE reviveInto(slots, cyclePolicy, result, Tail(names), Tail(kids),
                          SetProp(r.ds, result, Head(names), r.val))

fullRevive(slots, cyclePolicy, rawTree, ds) ==
  IF rawTree.t \notin {"array", "object"}
  THEN [val |-> PrimitiveOf(rawTree), ds |-> ds]
  ELSE IF JHas(rawTree, QCLASS)
       THEN reviveQclass(slots, cyclePolicy, rawTree, ds)
  ELSE IF rawTree.t = "array"
       THEN LET ds1 == Allocate(ds, Obj("array", FALSE, <<>>, <<>>, "", ""))
                result == Out(Len(ds1.out))
                ds2 == reviveInto(slots, cyclePolicy, result,
                                  [i \in 1..Len(rawTree.kids) |-> ""],
                                  rawTree.kids, reviverStart(ds1, result))
            IN IF ds2.ok
               THEN [val |-> result, ds |-> reviverFinish(ds2, result)]
               ELSE [val |-> Undefined, ds |-> ds2]
  ELSE LET ds1 == Allocate(ds, Obj("object", FALSE, <<>>, <<>>, "", ""))
           result == Out(Len(ds1.out))
           ds2 == reviveInto(slots, cyclePolicy, result, rawTree.keys,
                             rawTree.kids, reviverStart(ds1, result))
       IN IF ds2.ok
          THEN [val |-> result, ds |-> reviverFinish(ds2, result)]
          ELSE [val |-> Undefined, ds |-> ds2]

\* Variant of harden that freezes the value itself and nothing below it.
hardenAll_shallow(out, todo) ==
  IF todo = <<>> \/ Head(todo).k # "out" THEN out
  ELSE [out EXCEPT ![Head(todo).n].frozen = TRUE]

\* harden(val): val and every object reachable from it through own
\* properties is frozen.  todo holds values still to visit.
RECURSIVE hardenAll(_, _)
hardenAll(out, todo) ==
  IF todo = <<>> THEN out
  ELSE LET v == Head(todo) IN
       IF v.k # "out" \/ out[v.n].frozen THEN hardenAll(out, Tail(todo))
       ELSE hardenAll([out EXCEPT ![v.n].frozen = TRUE],
                      Tail(todo) \o out[v.n].vals)

(***************************************************************************)
(* pureCopy.  Its state: the objects made so far (out), the WeakMap        *)
(* already, and whether it has thrown.                                     *)
(***************************************************************************)
CopyState == [out |-> <<>>, already |-> <<>>, ok |-> TRUE, err |-> ""]

CopyThrown(cs, err) ==
  [val |-> Undefined, cs |-> [cs EXCEPT !.ok = FALSE, !.err = err]]

\* Object.entries(obj): the enumerable properties named by strings, in
\* own-key order; [names, vals], names "" for the elements of an array.
ObjectEntries(o) ==
  IF o.kind = "array"
  THEN [names |-> [i \in 1..Len(o.vals) |-> ""], vals |-> o.vals]
  ELSE LET names == OwnKeys(SelectSeq(o.keys, LAMBDA k : ~IsSymbolName(k)))
       IN [names |-> names,
           vals |-> [i \in 1..Len(names) |-> GetProp(o, names[i])]]

\* copy[prop] = value, in strict code: a TypeError when copy is frozen.
CopySetProp(cs, copy, name, val) ==
  IF cs.out[copy.n].frozen
  THEN [cs EXCEPT !.ok = FALSE, !.err = "!frozenCopy"]
  ELSE [cs EXCEPT !.out[copy.n] =
          [@ EXCEPT !.keys = IF name = "" THEN @ ELSE Append(@, name),
                    !.vals = Append(@, val)]]

RECURSIVE pureCopy(_, _, _, _)
RECURSIVE pureCopyEntries(_, _, _, _, _, _)

\* Object.entries(obj).forEach(([prop, value]) => { copy[prop] =
\* pureCopy(value, already) }); a throw ends the walk.
pureCopyEntries(h, reg, copy, names, vals, cs) ==
  IF names = <<>> \/ ~cs.ok THEN cs
  ELSE LET first == pureCopy(h, reg, Head(vals), cs) IN
       IF ~first.cs.ok THEN first.cs
       ELSE pureCopyEntries(h, reg, copy, Tail(names), Tail(vals),
                            CopySetProp(first.cs, copy, Head(names),
                                        first.val))

\* pureCopy(val, already): [val, cs].
pureCopy(h, reg, val, cs) ==
  LET passStyle == passStyleOf(h, reg, val) IN
  IF Throws(passStyle) THEN CopyThrown(cs, passStyle)
  ELSE IF IsPrimitiveStyle(passStyle) THEN [val |-> val, cs |-> cs]
  ELSE IF passStyle \in {"copyArray", "copyRecord"}
  THEN IF MapHas(cs.already, val)
       THEN [val |-> MapGet(cs.already, val), cs |-> cs]
       ELSE LET copy == Out(Len(cs.out) + 1)
                cs1 == [cs EXCEPT
                          !.out = Append(@, Obj(h[val.n].kind, FALSE, <<>>,
                                                <<>>, "", "")),
                          !.already = MapSet(@, val, copy)]
                entries == ObjectEntries(h[val.n])
                cs2 == pureCopyEntries(h, reg, copy, entries.names,
                                       entries.vals, cs1)
            IN IF cs2.ok
               THEN [val |-> copy,
                     cs |-> [cs2 EXCEPT !.out = hardenAll(@, <<copy>>)]]
               ELSE [val |-> Undefined, cs |-> cs2]
  ELSE IF passStyle = "copyError"
  THEN IF MapHas(cs.already, val)
       THEN [val |-> MapGet(cs.already, val), cs |-> cs]
       ELSE LET copy == Out(Len(cs.out) + 1) IN
            [val |-> copy,
             cs |-> [cs EXCEPT
                       !.out = Append(@, ErrorObject(
                                 getErrorConstructor(h[val.n].name),
                                 h[val.n].message)),
                       !.already = MapSet(@, val, copy)]]
  ELSE IF passStyle = REMOTE_STYLE THEN CopyThrown(cs, "!byReference")
  ELSE CopyThrown(cs, "!promise")

(***************************************************************************)
(* The operations                                                          *)
(***************************************************************************)
\* serialize(root): the encoder's final state and the capdata; a throw
\* returns no capdata.
serialize(h, reg, count, root) ==
  LET r == encode(h, reg, root, EncState(count)) IN
  [ok |-> r.st.ok, err |-> r.st.err,
   body |-> IF r.st.ok THEN JSONstringify(r.tree) ELSE <<>>,
   slots |-> IF r.st.ok THEN r.st.slots ELSE <<>>,
   errorCount |-> r.st.errorCount, log |-> r.st.log]

\* unserialize(data, cyclePolicy): the revived value, the objects it
\* allocated (hardened on return) and the reviver table's final state.
NoPolicy == ""
unserialize(data, cyclePolicyArg) ==
  LET cyclePolicy == IF cyclePolicyArg = NoPolicy THEN "forbidCycles"
                     ELSE cyclePolicyArg
      rawTree == JSONparse(data.body)
      r == IF rawTree.ok
           THEN fullRevive(data.slots, cyclePolicy, rawTree.node, DecState)
           ELSE Thrown(DecState, "!parse")
  IN [ok |-> r.ds.ok, err |-> r.ds.err,
      val |-> IF r.ds.ok THEN r.val ELSE Undefined,
      out |-> IF r.ds.ok THEN hardenAll(r.ds.out, <<r.val>>) ELSE <<>>,
      ibids |-> r.ds.ibids, unfinishedIbids |-> r.ds.unfinishedIbids,
      log |-> r.ds.log]

(***************************************************************************)
(* The objects the caller holds.  Object 1 is built by the caller from a   *)
(* shape and two values; the others are fixed.                             *)
(***************************************************************************)
ArrA == Ref(2)
ArrB == Ref(3)
Err == Ref(4)
Prom == Ref(5)
Empty == Ref(6)
FarTarget == Ref(7)
Twin == Ref(8)
Reserved == Ref(9)
ErrB == Ref(13)
CycA == Ref(14)
CycB == Ref(15)

Pool ==
  (ArrA.n :> ArrayObject(<<Num(1)>>))
  @@ (ArrB.n :> ArrayObject(<<Num(1)>>))
  @@ (Err.n :> ErrorObject("TypeError", "m"))
  @@ (Prom.n :> PromiseObject)
  @@ (Empty.n :> PlainObject(<<>>, <<>>))
  @@ (FarTarget.n :> Obj("object", FALSE, <<"m">>, <<Function>>, "", ""))
  @@ (Twin.n :> ArrayObject(<<ArrA, ArrA>>))
  @@ (Reserved.n :> PlainObject(<<QCLASS>>, <<Str("x")>>))
  @@ (ErrB.n :> ErrorObject("RangeError", "m"))
  @@ (CycA.n :> ArrayObject(<<CycB, Num(1)>>))
  @@ (CycB.n :> ArrayObject(<<CycA>>))

\* What the caller puts into object 1: its first and its second value.
FirstVals ==
  {Undefined, Ref(1), ArrA, Err, Prom, FarTarget, Twin}
SecondVals ==
  {NegZero, Ref(1), ArrA, ArrB, Err, ErrB, Prom, Empty, FarTarget, Twin,
   Reserved, CycA}
\* ... and into a record whose field names test the field order.
OrderVals == {Undefined, ArrA, Err, FarTarget, Twin}

RootObject(shape, x, y) ==
  CASE shape = "array" -> ArrayObject(<<x, y>>)
    [] shape = "ab" -> PlainObject(<<"a", "b">>, <<x, y>>)
    [] shape = "ba" -> PlainObject(<<"b", "a">>, <<x, y>>)
    [] shape = "10-9" -> PlainObject(<<"10", "9">>, <<x, y>>)
    [] shape = "10-8-9" -> PlainObject(<<"10", "8", "9">>, <<x, y, x>>)

RootObjects ==
  {RootObject(shape, x, y) :
     shape \in {"array", "ab"}, x \in FirstVals, y \in SecondVals}
  \cup {RootObject(shape, x, y) :
          shape \in {"ba", "10-9", "10-8-9"}, x \in OrderVals, y \in OrderVals}

SerializeRoots == {Ref(1)}

MaxCalls == 2

NoSer ==
  [n |-> 0, done |-> FALSE, root |-> Undefined, ok |-> FALSE, err |-> "",
   body |-> <<>>, slots |-> <<>>, log |-> <<>>, before |-> 0,
   prevRoot |-> Undefined, prevOk |-> FALSE, prevBody |-> <<>>]

NoUnser ==
  [called |-> FALSE, policy |-> NoPolicy, ok |-> FALSE, err |-> "",
   val |-> Undefined, out |-> <<>>, ibids |-> <<>>, unfinishedIbids |-> {},
   log |-> <<>>]

\* What was seen of the last Remotable or Far call: its arguments, whether
\* it returned, and the registry and the target as they were before the
\* call.
NoProps == [keys |-> <<>>, vals |-> <<>>]
NoRem ==
  [called |-> FALSE, far |-> FALSE, iface |-> Undefined, props |-> NoProps,
   target |-> Undefined, ok |-> FALSE, err |-> "", before |-> <<>>,
   was |-> Undefined]

\* What was seen of the last passStyleOf or getInterfaceOf call.
NoObs == [fn |-> "", val |-> Undefined, result |-> ""]

\* What was seen of the last pureCopy call: its argument, whether it
\* returned, the copy and the objects made for it.
NoPure ==
  [called |-> FALSE, root |-> Undefined, ok |-> FALSE, err |-> "",
   val |-> Undefined, out |-> <<>>]

Init ==
  /\ \E root \in RootObjects : heap = (1 :> root) @@ Pool
  /\ registry = <<>>
  /\ errorCount = 0
  /\ ser = NoSer
  /\ unser = NoUnser
  /\ rem = NoRem
  /\ obs = NoObs
  /\ pure = NoPure

\* Variant of serialize that enters the root into the registry.
Serialize_registering(root) ==
  /\ ser.n < MaxCalls
  /\ LET r == serialize(heap, registry, errorCount, root) IN
       /\ ser' = [n |-> ser.n + 1, done |-> TRUE, root |-> root,
                  ok |-> r.ok, err |-> r.err,
                  body |-> r.body, slots |-> r.slots, log |-> r.log,
                  before |-> errorCount,
                  prevRoot |-> ser.root, prevOk |-> ser.ok,
                  prevBody |-> ser.body]
       /\ errorCount' = r.errorCount
  /\ unser' = NoUnser
  /\ rem' = NoRem
  /\ registry' = IF root.k = "ref" /\ root.n \notin DOMAIN registry
                 THEN (root.n :> "Remotable") @@ registry
                 ELSE registry
  /\ UNCHANGED <<heap, obs, pure>>

\* const capdata = marshal.serialize(root)
Serialize(root) ==
  /\ ser.n < MaxCalls
  /\ LET r == serialize(heap, registry, errorCount, root) IN
       /\ ser' = [n |-> ser.n + 1, done |-> TRUE, root |-> root,
                  ok |-> r.ok, err |-> r.err,
                  body |-> r.body, slots |-> r.slots, log |-> r.log,
                  before |-> errorCount,
                  prevRoot |-> ser.root, prevOk |-> ser.ok,
                  prevBody |-> ser.body]
       /\ errorCount' = r.errorCount
  /\ unser' = NoUnser
  /\ rem' = NoRem
  /\ UNCHANGED <<heap, registry, obs, pure>>

\* marshal.unserialize(capdata, cyclePolicy): the capdata last produced is
\* consumed, once.
Unserialize(cyclePolicyArg) ==
  /\ ser.ok
  /\ ~unser.called
  /\ LET r == unserialize([body |-> ser.body, slots |-> ser.slots],
                          cyclePolicyArg)
     IN unser' = [called |-> TRUE, policy |-> cyclePolicyArg, ok |-> r.ok,
                  err |-> r.err, val |-> r.val, out |-> r.out,
                  ibids |-> r.ibids, unfinishedIbids |-> r.unfinishedIbids,
                  log |-> r.log]
  /\ UNCHANGED <<heap, registry, errorCount, ser, rem, obs, pure>>

\* The names Far is called with, and what may follow "Alleged: ".
FarNames == {"", "x"}
AllegedPrefix == "Alleged: "
\* iface.startsWith('Alleged: ')
StartsWithAlleged(s) == \E rest \in FarNames : s = AllegedPrefix \o rest

\* Object.defineProperties(target, newProps): a name the target has keeps
\* its place and takes the new value, a new name is added at the end.
RECURSIVE defineProperties(_, _, _)
defineProperties(o, keys, vals) ==
  IF keys = <<>> THEN o
  ELSE defineProperties(
         IF KeyPos(o.keys, Head(keys)) # 0
         THEN [o EXCEPT !.vals[KeyPos(o.keys, Head(keys))] = Head(vals)]
         ELSE [o EXCEPT !.keys = Append(@, Head(keys)),
                        !.vals = Append(@, Head(vals))],
         Tail(keys), Tail(vals))

\* mustPassByRemote(harden(Object.create(oldRemotableProto))): the fresh
\* object is empty, so the prototype decides.  Object.prototype is not
\* checked; Promise.prototype has methods only under its names; an error
\* prototype has the strings name and message.
checkOldProto(kind) ==
  IF kind \in {"object", "promise"} THEN "ok" ELSE "!notRemotable"

\* Variant of Remotable that takes a target whether or not it is registered
\* or hardened already.
remotable_again(h, reg, ifaceArg, props, target) ==
  LET iface == IF ifaceArg = Undefined THEN Str("Remotable") ELSE ifaceArg
      thrown(err) == [ok |-> FALSE, err |-> err, heap |-> h, registry |-> reg]
  IN IF iface.k # "string" THEN thrown("!ifaceType")
     ELSE IF ~(iface.s = "Remotable" \/ StartsWithAlleged(iface.s))
          THEN thrown("!iface")
     ELSE IF target.k # "ref" THEN thrown("!nonObject")
     ELSE IF assertCanBeRemotable(h[target.n]) # "ok"
          THEN thrown(assertCanBeRemotable(h[target.n]))
     ELSE [ok |-> TRUE, err |-> "",
           heap |-> [h EXCEPT ![target.n].frozen = TRUE],
           registry |-> (target.n :> iface.s) @@ reg]

\* Variant of Remotable that takes every string as the interface.
remotable_anyIface(h, reg, ifaceArg, props, target) ==
  LET iface == IF ifaceArg = Undefined THEN Str("Remotable") ELSE ifaceArg
      thrown(err) == [ok |-> FALSE, err |-> err, heap |-> h, registry |-> reg]
  IN IF iface.k # "string" THEN thrown("!ifaceType")
     ELSE IF target.k # "ref" THEN thrown("!nonObject")
     ELSE IF assertCanBeRemotable(h[target.n]) # "ok"
          THEN thrown(assertCanBeRemotable(h[target.n]))
     ELSE IF target.n \in DOMAIN reg THEN thrown("!registered")
     ELSE IF h[target.n].frozen THEN thrown("!frozenTarget")
     ELSE [ok |-> TRUE, err |-> "",
           heap |-> [h EXCEPT ![target.n].frozen = TRUE],
           registry |-> (target.n :> iface.s) @@ reg]

\* Variant of Remotable that goes on with a target that is hardened
\* already.
remotable_hardened(h, reg, ifaceArg, props, target) ==
  LET iface == IF ifaceArg = Undefined THEN Str("Remotable") ELSE ifaceArg
      thrown(err) == [ok |-> FALSE, err |-> err, heap |-> h, registry |-> reg]
      throwaway == defineProperties(Obj("object", FALSE, <<>>, <<>>, "", ""),
                                    props.keys, props.vals)
  IN IF iface.k # "string" THEN thrown("!ifaceType")
     ELSE IF ~(iface.s = "Remotable" \/ StartsWithAlleged(iface.s))
          THEN thrown("!iface")
     ELSE IF target.k = "null" THEN thrown("!notRemotable")
     ELSE IF target.k # "ref" THEN thrown("!nonObject")
     ELSE IF assertCanBeRemotable(h[target.n]) # "ok"
          THEN thrown(assertCanBeRemotable(h[target.n]))
     ELSE IF target.n \in DOMAIN reg THEN thrown("!registered")
     ELSE IF checkOldProto(h[target.n].kind) # "ok"
          THEN thrown(checkOldProto(h[target.n].kind))
     ELSE IF assertCanBeRemotable(throwaway) # "ok"
          THEN thrown(assertCanBeRemotable(throwaway))
     ELSE [ok |-> TRUE, err |-> "",
           heap |-> [h EXCEPT ![target.n] =
                       [defineProperties(@, props.keys, props.vals)
                          EXCEPT !.frozen = TRUE]],
           registry |-> (target.n :> iface.s) @@ reg]

\* Remotable(iface, props, remotable): [ok, err, heap, registry].  A throw
\* leaves the heap and the registry as they were.
remotable(h, reg, ifaceArg, props, target) ==
  LET iface == IF ifaceArg = Undefined THEN Str("Remotable") ELSE ifaceArg
      thrown(err) == [ok |-> FALSE, err |-> err, heap |-> h, registry |-> reg]
      throwaway == defineProperties(Obj("object", FALSE, <<>>, <<>>, "", ""),
                                    props.keys, props.vals)
  IN IF iface.k # "string" THEN thrown("!ifaceType")
     ELSE IF ~(iface.s = "Remotable" \/ StartsWithAlleged(iface.s))
          THEN thrown("!iface")
     ELSE IF target.k = "null" THEN thrown("!notRemotable")
     ELSE IF target.k # "ref" THEN thrown("!nonObject")
     ELSE IF assertCanBeRemotable(h[target.n]) # "ok"
          THEN thrown(assertCanBeRemotable(h[target.n]))
     ELSE IF target.n \in DOMAIN reg THEN thrown("!registered")
     ELSE IF checkOldProto(h[target.n].kind) # "ok"
          THEN thrown(checkOldProto(h[target.n].kind))
     ELSE IF assertCanBeRemotable(throwaway) # "ok"
          THEN thrown(assertCanBeRemotable(throwaway))
     ELSE IF h[target.n].frozen THEN thrown("!frozenTarget")
     ELSE [ok |-> TRUE, err |-> "",
           heap |-> [h EXCEPT ![target.n] =
                       [defineProperties(@, props.keys, props.vals)
                          EXCEPT !.frozen = TRUE]],
           registry |-> (target.n :> iface.s) @@ reg]

\* Remotable(iface, props, target).  What was observed of earlier serialize
\* and unserialize calls describes the objects as they were, and is
\* dropped.
Remotable(ifaceArg, props, target) ==
  LET r == remotable(heap, registry, ifaceArg, props, target) IN
  /\ heap' = r.heap
  /\ registry' = r.registry
  /\ rem' = [called |-> TRUE, far |-> FALSE, iface |-> ifaceArg,
             props |-> props, target |-> target, ok |-> r.ok, err |-> r.err,
             before |-> registry,
             was |-> IF target.k = "ref" THEN heap[target.n] ELSE Undefined]
  /\ ser' = [NoSer EXCEPT !.n = ser.n]
  /\ unser' = NoUnser
  /\ UNCHANGED <<errorCount, obs, pure>>

\* Far(farName, target) is Remotable(`Alleged: ${farName}`, undefined,
\* target).
Far(farName, target) ==
  LET r == remotable(heap, registry, Str(AllegedPrefix \o farName), NoProps,
                     target) IN
  /\ heap' = r.heap
  /\ registry' = r.registry
  /\ rem' = [called |-> TRUE, far |-> TRUE, iface |-> Str(farName),
             props |-> NoProps, target |-> target, ok |-> r.ok,
             err |-> r.err, before |-> registry,
             was |-> IF target.k = "ref" THEN heap[target.n] ELSE Undefined]
  /\ ser' = [NoSer EXCEPT !.n = ser.n]
  /\ unser' = NoUnser
  /\ UNCHANGED <<errorCount, obs, pure>>

\* passStyleOf(val), called by the program itself; a throw is seen as the
\* text of the throw.
PassStyleOf(val) ==
  /\ obs' = [fn |-> "passStyleOf", val |-> val,
             result |-> passStyleOf(heap, registry, val)]
  /\ UNCHANGED <<heap, registry, errorCount, ser, unser, rem, pure>>

\* getInterfaceOf(val)
GetInterfaceOf(val) ==
  /\ obs' = [fn |-> "getInterfaceOf", val |-> val,
             result |-> getInterfaceOf(registry, val)]
  /\ UNCHANGED <<heap, registry, errorCount, ser, unser, rem, pure>>

\* pureCopy(val), called by the program itself.
PureCopy(val) ==
  /\ LET r == pureCopy(heap, registry, val, CopyState) IN
       pure' = [called |-> TRUE, root |-> val, ok |-> r.cs.ok,
                err |-> r.cs.err, val |-> r.val,
                out |-> IF r.cs.ok THEN r.cs.out ELSE <<>>]
  /\ UNCHANGED <<heap, registry, errorCount, ser, unser, rem, obs>>

Ifaces == {Str("Remotable"), Str("Alleged: x")}

PolicyArgs == CyclePolicies \cup {NoPolicy, "bogusPolicy"}

Next ==
  \/ \E root \in SerializeRoots : Serialize(root)
  \/ \E p \in PolicyArgs : Unserialize(p)
  \/ \E iface \in Ifaces : Remotable(iface, NoProps, FarTarget)

Spec == Init /\ [][Next]_vars

(***************************************************************************)
(* Capdata that comes from a peer: unserialize "cannot rely on it being a  *)
(* valid marshalled representation".  The body holds one envelope, a slot  *)
(* or an ibid with some index (or none), alone or inside arrays and        *)
(* records; the slot list has none, one or two entries.                    *)
(***************************************************************************)
RawIndexes ==
  {<<>>, <<JNum(0)>>, <<JNum(1)>>, <<JNum(2)>>, <<JNum(-1)>>, <<JStr("0")>>}

RawEnvelope(qclass, index) ==
  IF index = <<>> THEN Envelope(qclass)
  ELSE ObjectFromEntries(<<QCLASS, "index">>, <<JStr(qclass), index[1]>>)

RawShapes == {"bare", "only", "after", "before", "field", "nested"}

RawTree(shape, e) ==
  CASE shape = "bare" -> e
    [] shape = "only" -> JArr(<<e>>)
    [] shape = "after" -> JArr(<<JArr(<<JNum(1)>>), e>>)
    [] shape = "before" -> JArr(<<e, JArr(<<JNum(1)>>)>>)
    [] shape = "field" ->
         ObjectFromEntries(<<"a", "b">>, <<JArr(<<JNum(1)>>), e>>)
    [] shape = "nested" -> JArr(<<JArr(<<JNum(1)>>), JArr(<<JNull, e>>)>>)

RawTrees ==
  {RawTree(shape, RawEnvelope(qclass, index)) :
     shape \in RawShapes, qclass \in {"slot", "ibid"}, index \in RawIndexes}

RawSlots == {<<>>, <<Slot(Prom.n)>>, <<Slot(Prom.n), Slot(Empty.n)>>}

\* The capdata is held where Unserialize takes it from; no serialize call
\* of this marshal made it.
InitRaw ==
  /\ heap = (1 :> ArrayObject(<<>>)) @@ Pool
  /\ registry = <<>>
  /\ errorCount = 0
  /\ \E tree \in RawTrees, slots \in RawSlots :
       ser = [NoSer EXCEPT !.ok = TRUE, !.body = JSONstringify(tree),
                           !.slots = slots]
  /\ unser = NoUnser
  /\ rem = NoRem
  /\ obs = NoObs
  /\ pure = NoPure

NextRaw == \E p \in PolicyArgs : Unserialize(p)

SpecRaw == InitRaw /\ [][NextRaw]_vars

(***************************************************************************)
(* The registry at work: Remotable and Far are called on targets of every  *)
(* kind, with good and bad interfaces and props, between passStyleOf,      *)
(* getInterfaceOf, serialize and unserialize calls.  Object 1 is the       *)
(* record {a: FarTarget, b: Fresh}, which serialize accepts once both are  *)
(* remotables.                                                             *)
(***************************************************************************)
Fresh == Ref(10)
DataTarget == Ref(11)
SymTarget == Ref(12)

PoolRegistry ==
  (1 :> RootObject("ab", FarTarget, Fresh))
  @@ (Fresh.n :> Obj("object", FALSE, <<>>, <<>>, "", ""))
  @@ (DataTarget.n :> Obj("object", FALSE, <<"a">>, <<Num(1)>>, "", ""))
  @@ (SymTarget.n :> Obj("object", FALSE, <<SymbolName>>, <<Num(1)>>, "", ""))
  @@ Pool

RegIfaces ==
  {Undefined, Str("Remotable"), Str("Alleged: x"), Str("x"), Num(1)}
RegProps ==
  {NoProps, [keys |-> <<"m">>, vals |-> <<Function>>],
   [keys |-> <<"a">>, vals |-> <<Num(1)>>]}
RegTargets ==
  {FarTarget, Fresh, DataTarget, SymTarget, Empty, ArrA, Prom, Null}

\* The Remotable calls: every interface on one target, every target with
\* no props, every props on a target that can be a remotable and on one
\* that is hardened already.
RemotableCalls ==
  {<<iface, NoProps, Fresh>> : iface \in RegIfaces}
  \cup {<<Str("Remotable"), NoProps, target>> : target \in RegTargets}
  \cup {<<Str("Remotable"), props, target>> :
          props \in RegProps, target \in {FarTarget, Empty}}
  \cup {<<Str("Remotable"), [keys |-> <<"a">>, vals |-> <<Function>>],
          DataTarget>>}

QueryVals == {FarTarget, Fresh, Empty, ArrA}

InitRegistry ==
  /\ heap = PoolRegistry
  /\ registry = <<>>
  /\ errorCount = 0
  /\ ser = NoSer
  /\ unser = NoUnser
  /\ rem = NoRem
  /\ obs = NoObs
  /\ pure = NoPure

NextRegistry ==
  \/ \E call \in RemotableCalls : Remotable(call[1], call[2], call[3])
  \/ \E farName \in FarNames : Far(farName, Fresh)
  \/ \E val \in QueryVals : PassStyleOf(val)
  \/ \E val \in QueryVals : GetInterfaceOf(val)
  \/ Serialize(Ref(1))
  \/ Unserialize(NoPolicy)

SpecRegistry == InitRegistry /\ [][NextRegistry]_vars

(***************************************************************************)
(* The classifier at work: object 1 is an object of any shape, hardened or *)
(* not; passStyleOf is called on it and on the primitive values, between   *)
(* Remotable, Far, serialize and unserialize calls.                        *)
(***************************************************************************)
ClassifyFields ==
  {NoProps,
   [keys |-> <<"a">>, vals |-> <<Num(1)>>],
   [keys |-> <<"m">>, vals |-> <<Function>>],
   [keys |-> <<"a", "m">>, vals |-> <<Num(1), Function>>],
   [keys |-> <<QCLASS>>, vals |-> <<Str("x")>>],
   [keys |-> <<QCLASS>>, vals |-> <<Function>>],
   [keys |-> <<"then">>, vals |-> <<Function>>],
   [keys |-> <<"then">>, vals |-> <<Num(1)>>],
   [keys |-> <<SymbolName>>, vals |-> <<Function>>],
   [keys |-> <<"a", SymbolName>>, vals |-> <<Num(1), Function>>]}

ClassifyObjects ==
  {Obj("object", frozen, f.keys, f.vals, "", "") :
     frozen \in BOOLEAN, f \in ClassifyFields}
  \cup {Obj("array", frozen, <<>>, vals, "", "") :
          frozen \in BOOLEAN, vals \in {<<>>, <<Num(1)>>, <<Function>>}}
  \cup {Obj("error", frozen, <<>>, <<>>, name, "m") :
          frozen \in BOOLEAN, name \in {"TypeError", "Custom"}}
  \cup {Obj("promise", frozen, <<>>, <<>>, "", "") : frozen \in BOOLEAN}

ClassifyVals ==
  {Ref(1), Null, Undefined, Bool("true"), Num(1), BigInt("1"), Str("a"),
   SymbolAsyncIterator, SymbolOther, Function}

InitClassify ==
  /\ \E o \in ClassifyObjects : heap = (1 :> o)
  /\ registry = <<>>
  /\ errorCount = 0
  /\ ser = NoSer
  /\ unser = NoUnser
  /\ rem = NoRem
  /\ obs = NoObs
  /\ pure = NoPure

NextClassify ==
  \/ \E val \in ClassifyVals : PassStyleOf(val)
  \/ \E iface \in Ifaces : Remotable(iface, NoProps, Ref(1))
  \/ \E farName \in FarNames : Far(farName, Ref(1))
  \/ \E val \in {Ref(1), SymbolAsyncIterator, SymbolOther} : Serialize(val)
  \/ Unserialize(NoPolicy)

SpecClassify == InitClassify /\ [][NextClassify]_vars

(***************************************************************************)
(* pureCopy at work: it is called on object 1, built as before from a      *)
(* shape and two values, and on the fixed objects.                         *)
(***************************************************************************)
CopyRoots == {Ref(1), ArrA, Err, Twin, Empty, Prom, CycA, CycB, Num(1)}

InitCopy ==
  /\ \E root \in RootObjects : heap = (1 :> root) @@ Pool
  /\ registry = <<>>
  /\ errorCount = 0
  /\ ser = NoSer
  /\ unser = NoUnser
  /\ rem = NoRem
  /\ obs = NoObs
  /\ pure = NoPure

NextCopy == \E val \in CopyRoots : PureCopy(val)

SpecCopy == InitCopy /\ [][NextCopy]_vars

(***************************************************************************)
(* Vocabulary of the properties: positions in the caller's graph, in the   *)
(* body and in the revived graph, named by the path that leads to them; a  *)
(* step is a field name, or (name "") an array position.                   *)
(***************************************************************************)
MaxDepth == 3

Step(name, i) == [name |-> name, i |-> i]
Missing == Val("missing", "", 0)

Style(v) == passStyleOf(heap, registry, v)
IsCopyContainer(v) == Style(v) \in {"copyArray", "copyRecord"}
IsCapability(v) == Style(v) \in {REMOTE_STYLE, "promise"}
IsNonPrimitive(v) ==
  Style(v) \in {"copyArray", "copyRecord", "copyError", REMOTE_STYLE,
                "promise"}

\* The steps out of a copied array or record of the caller.
InSteps(v) ==
  IF Style(v) = "copyArray"
  THEN {Step("", i) : i \in 1..Len(heap[v.n].vals)}
  ELSE IF Style(v) = "copyRecord"
  THEN {Step(heap[v.n].keys[i], 0) : i \in 1..Len(heap[v.n].keys)}
  ELSE {}

InChild(v, step) ==
  IF step.name = "" THEN heap[v.n].vals[step.i]
  ELSE GetProp(heap[v.n], step.name)

\* The paths of at most d steps from v, and the value a path leads to.
RECURSIVE InPaths(_, _)
InPaths(v, d) ==
  {<<>>} \cup
  (IF d = 0 THEN {}
   ELSE UNION {{<<s>> \o q : q \in InPaths(InChild(v, s), d - 1)} :
                 s \in InSteps(v)})

RECURSIVE InAt(_, _)
InAt(v, path) ==
  IF path = <<>> THEN v ELSE InAt(InChild(v, Head(path)), Tail(path))

\* The body's node at a path; an envelope has nothing below it.
IsEnvelope(node) == JHas(node, QCLASS)
QclassOf(node) == IF IsEnvelope(node) THEN JField(node, QCLASS).s ELSE ""
IsIbid(node) == QclassOf(node) = "ibid"
IsSlot(node) == QclassOf(node) = "slot"

TreeChild(node, step) ==
  IF node.t = "array" /\ step.name = "" /\ step.i \in 1..Len(node.kids)
  THEN node.kids[step.i]
  ELSE IF node.t = "object" /\ ~IsEnvelope(node) /\ step.name # ""
  THEN JGet(node, step.name)
  ELSE JMissing

RECURSIVE TreeAt(_, _)
TreeAt(node, path) ==
  IF path = <<>> THEN node
  ELSE TreeAt(TreeChild(node, Head(path)), Tail(path))

\* The tree the body text of the last serialize call stands for.
BodyTree == JSONparse(ser.body).node

\* The paths of the caller's graph at which the body holds a node: the
\* places the encoder emitted something for.
Emitted ==
  LET tree == BodyTree IN
  {p \in InPaths(ser.root, MaxDepth) : TreeAt(tree, p) # JMissing}

\* The revived graph's value at a path.
OutChild(v, step) ==
  IF v.k # "out" THEN Missing
  ELSE LET o == unser.out[v.n] IN
       IF o.kind = "array" /\ step.name = "" /\ step.i \in 1..Len(o.vals)
       THEN o.vals[step.i]
       ELSE IF o.kind = "object" /\ KeyPos(o.keys, step.name) # 0
       THEN GetProp(o, step.name)
       ELSE Missing

RECURSIVE OutAt(_, _)
OutAt(v, path) ==
  IF path = <<>> THEN v ELSE OutAt(OutChild(v, Head(path)), Tail(path))

\* Position of x in seq, 0 when absent.
IndexIn(seq, x) ==
  IF \E i \in 1..Len(seq) : seq[i] = x
  THEN CHOOSE i \in 1..Len(seq) : seq[i] = x
  ELSE 0

RECURSIVE SelectSeq2(_, _)
SelectSeq2(seq, keep) ==
  IF seq = <<>> THEN <<>>
  ELSE (IF Head(seq) \in keep THEN <<Head(seq)>> ELSE <<>>)
       \o SelectSeq2(Tail(seq), keep)

\* The encoder's pre-order, stated on the caller's graph: the distinct
\* non-primitive values in the order a depth-first walk first meets them,
\* a record's fields taken in ascending order of their names.
ChildrenInOrder(v) ==
  IF Style(v) = "copyArray" THEN heap[v.n].vals
  ELSE IF Style(v) = "copyRecord"
  THEN LET names == SortNames(heap[v.n].keys)
       IN [i \in 1..Len(names) |-> GetProp(heap[v.n], names[i])]
  ELSE <<>>

RECURSIVE Walk(_, _)
Walk(todo, seen) ==
  IF todo = <<>> THEN seen
  ELSE LET v == Head(todo) IN
       IF ~IsNonPrimitive(v) \/ IndexIn(seen, v) # 0
       THEN Walk(Tail(todo), seen)
       ELSE Walk(ChildrenInOrder(v) \o Tail(todo), Append(seen, v))

FirstVisits(root) == Walk(<<root>>, <<>>)

\* Everything in the graph is passable.
Passable(root) ==
  \A p \in InPaths(root, MaxDepth) : ~Throws(Style(InAt(root, p)))
       /\ InAt(root, p) # SymbolOther

\* The decoder's pre-order, stated on the parsed body: the paths of the
\* nodes that enter the reviver's table (arrays, records, error and slot
\* envelopes), in the order a depth-first walk meets them.
TreeStepsInOrder(node) ==
  IF node.t = "array" THEN [i \in 1..Len(node.kids) |-> Step("", i)]
  ELSE IF node.t = "object" /\ ~IsEnvelope(node)
  THEN [i \in 1..Len(node.keys) |-> Step(node.keys[i], 0)]
  ELSE <<>>

RECURSIVE TreeWalk(_, _, _)
TreeWalk(tree, todo, seen) ==
  IF todo = <<>> THEN seen
  ELSE LET p == Head(todo)
           node == TreeAt(tree, p)
           steps == TreeStepsInOrder(node)
       IN IF node.t \in {"array", "object"}
             /\ (IsEnvelope(node) => QclassOf(node) \in {"error", "slot"})
          THEN TreeWalk(tree,
                        [i \in 1..Len(steps) |-> Append(p, steps[i])]
                          \o Tail(todo),
                        Append(seen, p))
          ELSE TreeWalk(tree, Tail(todo), seen)

Registered(tree) == TreeWalk(tree, <<<<>>>>, <<>>)

IsProperPrefix(q, p) == Len(q) < Len(p) /\ SubSeq(p, 1, Len(q)) = q

\* The paths of the body's ibid envelopes that name an enclosing array or
\* record: a node that is still in construction when the envelope is met.
AllTreePaths(tree) ==
  LET reg == Registered(tree) IN
  UNION {{reg[i]} \cup {Append(reg[i], TreeStepsInOrder(TreeAt(tree, reg[i]))[j]) :
                          j \in 1..Len(TreeStepsInOrder(TreeAt(tree, reg[i])))} :
           i \in 1..Len(reg)}

CyclicIbids(tree) ==
  LET reg == Registered(tree) IN
  {p \in AllTreePaths(tree) :
     /\ IsIbid(TreeAt(tree, p))
     /\ IsNat(JGet(TreeAt(tree, p), "index"))
     /\ JGet(TreeAt(tree, p), "index").n < Len(reg)
     /\ IsProperPrefix(reg[JGet(TreeAt(tree, p), "index").n + 1], p)}

(***************************************************************************)
(* C1 to C3: round trip, canonicity, ibid fidelity                         *)
(***************************************************************************)
Normalized(v) == IF v = NegZero THEN Num(0) ELSE v

\* The revived value w has the structure of the caller's value v: the same
\* pass-style at every position, the same field names, the same primitive
\* leaves (-0 and 0 alike), as far as d levels down.
RECURSIVE SameStructure(_, _, _)
SameStructure(v, w, d) ==
  IF d = 0 THEN TRUE
  ELSE LET style == Style(v) IN
       CASE IsPrimitiveStyle(style) -> Normalized(v) = Normalized(w)
         [] style = "copyArray" ->
              /\ w.k = "out"
              /\ unser.out[w.n].kind = "array"
              /\ Len(unser.out[w.n].vals) = Len(heap[v.n].vals)
              /\ \A i \in 1..Len(heap[v.n].vals) :
                   SameStructure(heap[v.n].vals[i], unser.out[w.n].vals[i],
                                 d - 1)
         [] style = "copyRecord" ->
              /\ w.k = "out"
              /\ unser.out[w.n].kind = "object"
              /\ {unser.out[w.n].keys[i] : i \in 1..Len(unser.out[w.n].keys)}
                   = {heap[v.n].keys[i] : i \in 1..Len(heap[v.n].keys)}
              /\ \A i \in 1..Len(heap[v.n].keys) :
                   SameStructure(heap[v.n].vals[i],
                                 GetProp(unser.out[w.n], heap[v.n].keys[i]),
                                 d - 1)
         [] style = "copyError" ->
              /\ w.k = "out"
              /\ unser.out[w.n].kind = "error"
              /\ unser.out[w.n].name = heap[v.n].name
              /\ unser.out[w.n].message = heap[v.n].message
         [] OTHER -> FALSE

\* v is passable and holds no remote and no promise.
PureData(v) ==
  /\ Passable(v)
  /\ \A p \in InPaths(v, MaxDepth) : ~IsCapability(InAt(v, p))

\* Some object of the graph is reached again from inside itself.
HasCycle(v) ==
  \E p \in InPaths(v, MaxDepth) : \E k \in 0..(Len(p) - 1) :
    /\ IsNonPrimitive(InAt(v, p))
    /\ InAt(v, SubSeq(p, 1, k)) = InAt(v, p)

\* C1 (round trip for pure data): serialize accepts every hardened value
\* that holds no remote and no promise, and unserialize, called on the
\* capdata with no cycle policy given, returns a value of the same
\* structure.  Stated for the values without a reference cycle: one with a
\* cycle is refused by the default policy forbidCycles, which is another
\* matter than the one this formula shows.
C1_RoundTrip ==
  /\ (ser.done /\ PureData(ser.root)) => ser.ok
  /\ (unser.called /\ unser.policy = NoPolicy /\ PureData(ser.root)
        /\ ~HasCycle(ser.root))
       => (unser.ok /\ SameStructure(ser.root, unser.val, MaxDepth + 1))

\* Two values of the caller have the same structure (sharing set aside).
RECURSIVE SameStructureIn(_, _, _)
SameStructureIn(v, w, d) ==
  IF d = 0 THEN TRUE
  ELSE LET style == Style(v) IN
       /\ Style(w) = style
       /\ CASE IsPrimitiveStyle(style) -> Normalized(v) = Normalized(w)
            [] style = "copyArray" ->
                 /\ Len(heap[w.n].vals) = Len(heap[v.n].vals)
                 /\ \A i \in 1..Len(heap[v.n].vals) :
                      SameStructureIn(heap[v.n].vals[i], heap[w.n].vals[i],
                                      d - 1)
            [] style = "copyRecord" ->
                 /\ {heap[w.n].keys[i] : i \in 1..Len(heap[w.n].keys)}
                      = {heap[v.n].keys[i] : i \in 1..Len(heap[v.n].keys)}
                 /\ \A i \in 1..Len(heap[v.n].keys) :
                      SameStructureIn(heap[v.n].vals[i],
                                      GetProp(heap[w.n], heap[v.n].keys[i]),
                                      d - 1)
            [] style = "copyError" ->
                 /\ heap[w.n].name = heap[v.n].name
                 /\ heap[w.n].message = heap[v.n].message
            [] OTHER -> v = w

\* C2 (canonicity): two serialize calls of one marshal, made on values of
\* the same structure, return the same body.
C2_Canonicity ==
  (ser.done /\ ser.ok /\ ser.prevOk
     /\ SameStructureIn(ser.prevRoot, ser.root, MaxDepth + 1))
    => ser.body = ser.prevBody

\* The ibid index the encoder gave to v in the last serialize call.
EncIndex(v) ==
  LET adds == {i \in 1..Len(ser.log) :
                 ser.log[i].ev = "add" /\ ser.log[i].val = v}
  IN IF adds = {} THEN -1 ELSE ser.log[CHOOSE i \in adds : TRUE].index

\* C3 (ibid fidelity): under allowCycles the decoder registers, at the
\* index the encoder gave to a node of the caller's graph, the revival of
\* that same node: the value found in the revived graph along any path is
\* the table's entry at the index of the caller's value along that path.
C3_IbidFidelity ==
  (unser.called /\ unser.policy = "allowCycles")
    => /\ unser.ok
       /\ \A p \in InPaths(ser.root, MaxDepth) :
            IsNonPrimitive(InAt(ser.root, p))
              => /\ EncIndex(InAt(ser.root, p)) + 1 \in 1..Len(unser.ibids)
                 /\ unser.ibids[EncIndex(InAt(ser.root, p)) + 1]
                      = OutAt(unser.val, p)

(***************************************************************************)
(* C4 to C7: the slot table and the encoder's ibid table                   *)
(***************************************************************************)
RECURSIVE SelectEvents(_, _)
SelectEvents(log, evs) ==
  IF log = <<>> THEN <<>>
  ELSE (IF Head(log).ev \in evs THEN <<Head(log)>> ELSE <<>>)
       \o SelectEvents(Tail(log), evs)

\* The remotes and promises of the graph, in the order of their first visit.
Capabilities(root) ==
  LET visits == FirstVisits(root) IN
  SelectSeq2(visits, {visits[i] : i \in {j \in 1..Len(visits) :
                                            IsCapability(visits[j])}})

EnvelopeIndex(node) == JGet(node, "index").n

\* The entries of the slot list that stand for v.
SlotEntries(v) == {i \in 1..Len(ser.slots) : ser.slots[i] = convertValToSlot(v)}

\* C4 as the specification has it (slot dedup): every place of a remote or
\* a promise in the body, the first and the later ones, holds a slot
\* envelope with the index of the value's one entry in the slot list.
C4_SlotDedup ==
  ser.ok =>
    \A p \in Emitted :
      IsCapability(InAt(ser.root, p))
        => /\ IsSlot(TreeAt(BodyTree, p))
           /\ SlotEntries(InAt(ser.root, p))
                = {EnvelopeIndex(TreeAt(BodyTree, p)) + 1}

\* C4, amended: the first place of a remote or a promise holds a slot
\* envelope with the index of the value's one entry in the slot list (and
\* the interface of a registered remotable); every later place of the same
\* value holds an ibid envelope with the ibid index given at the first.
C4_SlotThenIbid ==
  ser.ok =>
    LET tree == BodyTree
        emitted == Emitted
        visits == FirstVisits(ser.root)
    IN
    \A v \in {InAt(ser.root, p) : p \in emitted} :
      IsCapability(v) =>
        LET places == {p \in emitted : InAt(ser.root, p) = v}
            first == {p \in places : IsSlot(TreeAt(tree, p))}
            occurrences ==
              SelectEvents(SelectSeq2(ser.log,
                                      {ser.log[i] : i \in {j \in 1..Len(ser.log) :
                                                     ser.log[j].val = v}}),
                           {"slot", "ibid"})
        IN /\ Cardinality(first) = 1
           /\ \A p \in first :
                /\ SlotEntries(v) = {EnvelopeIndex(TreeAt(tree, p)) + 1}
                /\ JGet(TreeAt(tree, p), "iface")
                     = IF getInterfaceOf(registry, v) = NoIface THEN JMissing
                       ELSE JStr(getInterfaceOf(registry, v))
           /\ \A p \in places \ first :
                /\ IsIbid(TreeAt(tree, p))
                /\ EnvelopeIndex(TreeAt(tree, p))
                     = IndexIn(visits, v) - 1
           /\ Len(occurrences) = Cardinality(places)
           /\ occurrences[1].ev = "slot"
           /\ \A i \in 2..Len(occurrences) : occurrences[i].ev = "ibid"

\* serialize({a: r, b: r}) for a remotable r registered as "Remotable": one
\* slot, a slot envelope at a and an ibid envelope at b.
C4_Witness ==
  /\ ser.ok
  /\ heap[1] = RootObject("ab", FarTarget, FarTarget)
  /\ getInterfaceOf(registry, FarTarget) = "Remotable"
  /\ Len(ser.slots) = 1
  /\ TreeAt(BodyTree, <<Step("a", 0)>>)
       = ObjectFromEntries(<<QCLASS, "iface", "index">>,
                           <<JStr("slot"), JStr("Remotable"), JNum(0)>>)
  /\ TreeAt(BodyTree, <<Step("b", 0)>>)
       = ObjectFromEntries(<<QCLASS, "index">>, <<JStr("ibid"), JNum(1)>>)

\* C5 (slot table matches visitation order): slots[i] is convertValToSlot
\* of the i-th distinct remote or promise of the encoder's pre-order, and
\* the slot envelope emitted for that value carries the index i.
C5_SlotOrder ==
  ser.ok =>
    LET caps == Capabilities(ser.root)
        tree == BodyTree
        emitted == Emitted
    IN
    /\ Len(ser.slots) = Len(caps)
    /\ \A i \in 1..Len(caps) :
         /\ ser.slots[i] = convertValToSlot(caps[i])
         /\ \E p \in emitted :
              /\ InAt(ser.root, p) = caps[i]
              /\ IsSlot(TreeAt(tree, p))
    /\ \A p \in emitted :
         IsSlot(TreeAt(tree, p))
           => /\ EnvelopeIndex(TreeAt(tree, p)) + 1 \in 1..Len(caps)
              /\ caps[EnvelopeIndex(TreeAt(tree, p)) + 1]
                   = InAt(ser.root, p)

\* a graph with two distinct capabilities, the promise met first
C5_Witness ==
  /\ ser.ok
  /\ ser.slots = <<convertValToSlot(Prom), convertValToSlot(Empty)>>
  /\ Capabilities(ser.root) = <<Prom, Empty>>

\* C6 (one ibid index per non-primitive): the encoder's table gives the
\* indices 0, 1, 2, ... to the distinct non-primitive values in the order
\* of their first visit, and to nothing else; each of them is emitted in
\* full at one place, and every other place of it holds an ibid envelope
\* with its index; no place of a primitive holds an ibid envelope.
C6_IbidIndices ==
  ser.ok =>
    LET visits == FirstVisits(ser.root)
        adds == SelectEvents(ser.log, {"add"})
        tree == BodyTree
        emitted == Emitted
    IN /\ Len(adds) = Len(visits)
       /\ \A i \in 1..Len(visits) :
            /\ adds[i].val = visits[i]
            /\ adds[i].index = i - 1
            /\ Cardinality({p \in emitted :
                              /\ InAt(ser.root, p) = visits[i]
                              /\ ~IsIbid(TreeAt(tree, p))}) = 1
       /\ \A p \in emitted :
            IsIbid(TreeAt(tree, p))
              => /\ IsNonPrimitive(InAt(ser.root, p))
                 /\ EnvelopeIndex(TreeAt(tree, p))
                      = IndexIn(visits, InAt(ser.root, p)) - 1

\* [undefined, [a, a]]: the primitive takes no index, the shared array a
\* has index 2 and its second place holds ibid 2
C6_Witness ==
  /\ ser.ok
  /\ heap[1] = RootObject("array", Undefined, Twin)
  /\ TreeAt(BodyTree, <<Step("", 1)>>) = Envelope("undefined")
  /\ TreeAt(BodyTree, <<Step("", 2), Step("", 2)>>)
       = ObjectFromEntries(<<QCLASS, "index">>, <<JStr("ibid"), JNum(2)>>)

\* C7 (reserved name): serialize fails whenever an object of the graph that
\* is not a registered remotable has the field "@qclass".
C7_ReservedName ==
  ser.done =>
    ((\E p \in InPaths(ser.root, MaxDepth) :
        LET v == InAt(ser.root, p) IN
        /\ v.k = "ref"
        /\ getInterfaceOf(registry, v) = NoIface
        /\ KeyPos(heap[v.n].keys, QCLASS) # 0)
       => (~ser.ok /\ ser.body = <<>> /\ ser.slots = <<>>))

\* a record holding, in a field, an object with the field "@qclass"
C7_Witness ==
  /\ ser.done
  /\ ~ser.ok
  /\ ser.err = "!reserved"
  /\ heap[1] = RootObject("ab", ArrA, Reserved)

(***************************************************************************)
(* C8 to C10: the cycle policy                                             *)
(***************************************************************************)
\* C8 (forbidden cycles): with forbidCycles, or with no cycle policy given,
\* unserialize fails on a body in which an ibid envelope names an array or
\* record that encloses it.
C8_ForbidCycles ==
  (unser.called /\ unser.policy \in {"forbidCycles", NoPolicy}
     /\ CyclicIbids(BodyTree) # {})
    => (~unser.ok /\ unser.val = Undefined /\ unser.out = <<>>)

\* a body holding {"@qclass":"ibid","index":0} inside the root object,
\* unserialized with no cycle policy given
C8_Witness ==
  /\ unser.called
  /\ unser.policy = NoPolicy
  /\ BodyTree.t = "object"
  /\ TreeAt(BodyTree, <<Step("a", 0)>>)
       = ObjectFromEntries(<<QCLASS, "index">>, <<JStr("ibid"), JNum(0)>>)
  /\ unser.err = "!ibidCycle"

\* C9 (permitted cycles): with allowCycles or warnOfCycles an ibid envelope
\* that names an enclosing array or record is no failure (the call fails
\* only on an ibid index out of range), the revived graph holds, at the
\* envelope's place, the very object revived for the enclosing node, and
\* warnOfCycles returns what allowCycles returns.
C9_AllowCycles ==
  (unser.called /\ unser.policy \in {"allowCycles", "warnOfCycles"})
    => /\ unser.ok \/ unser.err = "!ibidRange"
       /\ unser.ok =>
            \A p \in CyclicIbids(BodyTree) :
              LET q == Registered(BodyTree)[EnvelopeIndex(TreeAt(BodyTree, p)) + 1]
              IN /\ OutAt(unser.val, p).k = "out"
                 /\ OutAt(unser.val, p) = OutAt(unser.val, q)
       /\ LET allowed == unserialize([body |-> ser.body, slots |-> ser.slots],
                                     "allowCycles")
          IN /\ unser.ok = allowed.ok
             /\ unser.val = allowed.val
             /\ unser.out = allowed.out

\* [root, x] revived under warnOfCycles: the first element is the array
C9_Witness ==
  /\ unser.called
  /\ unser.policy = "warnOfCycles"
  /\ unser.ok
  /\ <<Step("", 1)>> \in CyclicIbids(BodyTree)
  /\ unser.val.k = "out"
  /\ unser.out[unser.val.n].vals[1] = unser.val

\* C10 (unknown cycle policies fail): unserialize fails whenever the cycle
\* policy it is given is none of allowCycles, warnOfCycles, forbidCycles.
C10_UnknownPolicyFails ==
  (unser.called /\ unser.policy \notin CyclePolicies \cup {NoPolicy})
    => ~unser.ok

(***************************************************************************)
(* C11, C12: indices of slot and ibid envelopes in capdata from a peer     *)
(***************************************************************************)
\* Every node of the parsed body, in the order the decoder meets them.
RECURSIVE TreeWalkAll(_, _, _)
TreeWalkAll(tree, todo, seen) ==
  IF todo = <<>> THEN seen
  ELSE LET p == Head(todo)
           steps == TreeStepsInOrder(TreeAt(tree, p))
       IN TreeWalkAll(tree,
                      [i \in 1..Len(steps) |-> Append(p, steps[i])]
                        \o Tail(todo),
                      Append(seen, p))

TreeOrder(tree) == TreeWalkAll(tree, <<<<>>>>, <<>>)

\* How many nodes the decoder has registered when it reaches the node at p.
RegisteredBefore(tree, p) ==
  LET order == TreeOrder(tree)
      reg == Registered(tree)
  IN Cardinality({i \in 1..Len(reg) : IndexIn(order, reg[i]) < IndexIn(order, p)})

EnvelopePaths(tree, qclass) ==
  LET order == TreeOrder(tree) IN
  {order[i] : i \in {j \in 1..Len(order) :
                       QclassOf(TreeAt(tree, order[j])) = qclass}}

\* C11 (out-of-range slot index fails): unserialize fails whenever the body
\* holds a slot envelope whose index is not a natural number smaller than
\* slots.length, and slotToVal is not called for such an envelope.
C11_SlotIndexChecked ==
  unser.called =>
    LET tree == BodyTree IN
    (\E p \in EnvelopePaths(tree, "slot") :
       ~(/\ IsNat(JGet(TreeAt(tree, p), "index"))
         /\ EnvelopeIndex(TreeAt(tree, p)) < Len(ser.slots)))
      => /\ ~unser.ok
         /\ \A i \in 1..Len(unser.log) :
              unser.log[i].ev = "slotToVal"
                => unser.log[i].index < Len(ser.slots)

\* C12 (out-of-range ibid index fails): under every cycle policy,
\* unserialize fails when the body holds an ibid envelope whose index is
\* not a natural number smaller than the number of nodes registered before
\* the envelope is reached; when it succeeds, every ibid envelope stands
\* for the table's entry at its index, the revival of a node that the
\* pre-order meets before the envelope.
C12_IbidIndexChecked ==
  unser.called =>
    LET tree == BodyTree
        order == TreeOrder(tree)
        reg == Registered(tree)
        ibids == EnvelopePaths(tree, "ibid")
    IN /\ (\E p \in ibids :
             ~(/\ IsNat(JGet(TreeAt(tree, p), "index"))
               /\ EnvelopeIndex(TreeAt(tree, p)) < RegisteredBefore(tree, p)))
            => (~unser.ok /\ unser.val = Undefined /\ unser.out = <<>>)
       /\ unser.ok =>
            \A p \in ibids :
              LET n == EnvelopeIndex(TreeAt(tree, p)) IN
              /\ n + 1 \in 1..Len(reg)
              /\ IndexIn(order, reg[n + 1]) < IndexIn(order, p)
              /\ OutAt(unser.val, p) = unser.ibids[n + 1]

\* [ibid 1, [1]] under allowCycles: the envelope names the array that
\* comes after it
C12_Witness ==
  /\ unser.called
  /\ unser.policy = "allowCycles"
  /\ BodyTree = RawTree("before", RawEnvelope("ibid", <<JNum(1)>>))
  /\ ~unser.ok
  /\ unser.err = "!ibidRange"

(***************************************************************************)
(* C13 to C15: the registry of remotables                                  *)
(***************************************************************************)
TargetWasRegistered ==
  rem.target.k = "ref" /\ rem.target.n \in DOMAIN rem.before

\* C13 (interface tags are write-once): a tag that getInterfaceOf has
\* returned for an object is what getInterfaceOf returns for it ever
\* after; a Remotable or Far call keeps every tag of the registry, and one
\* whose target is registered already fails and leaves the registry as it
\* was.
C13_WriteOnce ==
  /\ (obs.fn = "getInterfaceOf" /\ obs.result # NoIface)
       => getInterfaceOf(registry, obs.val) = obs.result
  /\ rem.called =>
       /\ \A o \in DOMAIN rem.before :
            o \in DOMAIN registry /\ registry[o] = rem.before[o]
       /\ TargetWasRegistered => (~rem.ok /\ registry = rem.before)

\* getInterfaceOf(Fresh) has returned "Alleged: x", and a later
\* Remotable("Remotable", {}, Fresh) has failed
C13_Witness ==
  /\ obs = [fn |-> "getInterfaceOf", val |-> Fresh, result |-> "Alleged: x"]
  /\ rem.called
  /\ rem.target = Fresh
  /\ rem.iface = Str("Remotable")
  /\ ~rem.ok
  /\ rem.err = "!registered"
  /\ getInterfaceOf(registry, Fresh) = "Alleged: x"

\* C14 (registry tag validity): every tag of the registry is "Remotable"
\* or begins with "Alleged: "; a Remotable call with another interface
\* fails and registers nothing; a Far call that returns has registered
\* "Alleged: " followed by the name it was given.
C14_TagValidity ==
  /\ \A o \in DOMAIN registry :
       registry[o] \in {"Remotable", "Alleged: ", "Alleged: x"}
  /\ (rem.called /\ ~rem.far
        /\ rem.iface \notin {Undefined, Str("Remotable"), Str("Alleged: "),
                             Str("Alleged: x")})
       => (~rem.ok /\ registry = rem.before)
  /\ (rem.called /\ rem.far /\ rem.ok)
       => /\ rem.target.n \notin DOMAIN rem.before
          /\ registry = (rem.target.n :> "Alleged: " \o rem.iface.s)
                          @@ rem.before

\* Far("x", Fresh) has registered "Alleged: x"
C14_Witness ==
  /\ rem.called
  /\ rem.far
  /\ rem.iface = Str("x")
  /\ rem.target = Fresh
  /\ rem.ok
  /\ registry = (Fresh.n :> "Alleged: x")
  /\ heap[Fresh.n].frozen

\* C15 (only operations as own fields): a Remotable call fails when the
\* target has an own field, whatever its name, that is no function, or the
\* props have one; the registry and the target are then as they were
\* before the call.
C15_OnlyOperations ==
  (rem.called
     /\ \/ /\ rem.target.k = "ref"
           /\ \E i \in 1..Len(rem.was.vals) : rem.was.vals[i].k # "function"
        \/ \E i \in 1..Len(rem.props.vals) :
             rem.props.vals[i].k # "function")
    => /\ ~rem.ok
       /\ registry = rem.before
       /\ rem.target.k = "ref" => heap[rem.target.n] = rem.was

(***************************************************************************)
(* C16 to C19: the classifier                                              *)
(***************************************************************************)
\* The last call was passStyleOf(val) and this is what it gave.
Classified(val, result) ==
  obs.fn = "passStyleOf" /\ obs.val = val /\ obs.result = result

IsOperation(v) == v.k = "function"

\* C16 (empty record is remote-style): passStyleOf of a frozen object with
\* the default prototype returns copyRecord only if the object has at least
\* one own field and none of its fields is an operation; for the frozen
\* empty record it returns the remote style, and serialize emits the empty
\* record as a slot envelope without iface, not as a copied {}.
C16_EmptyRecordRemote ==
  LET o == heap[1] IN
  /\ Classified(Ref(1), "copyRecord") =>
       /\ o.kind = "object"
       /\ o.frozen
       /\ Len(o.keys) >= 1
       /\ \A i \in 1..Len(o.keys) : ~IsOperation(o.vals[i])
  /\ (obs.fn = "passStyleOf" /\ obs.val = Ref(1)
      /\ o = PlainObject(<<>>, <<>>) /\ 1 \notin DOMAIN registry)
       => obs.result = REMOTE_STYLE
  /\ (ser.done /\ ser.root = Ref(1)
      /\ o = PlainObject(<<>>, <<>>) /\ 1 \notin DOMAIN registry)
       => /\ ser.ok
          /\ ser.slots = <<convertValToSlot(Ref(1))>>
          /\ BodyTree = ObjectFromEntries(<<QCLASS, "index">>,
                                          <<JStr("slot"), JNum(0)>>)

\* The tests of the classifier on an object value, in their order, and what
\* each of them can decide.
TestNames ==
  <<"registered", "null", "sentinel", "notFrozen", "promise", "thenable",
    "errorShape", "arrayShape", "recordShape", "remoteValidation">>

TestMatches(h, reg, v, test) ==
  IF v = Null THEN test = "null"
  ELSE LET o == h[v.n] IN
    CASE test = "registered" -> v.n \in DOMAIN reg
      [] test = "null" -> FALSE
      [] test = "sentinel" -> \E i \in 1..Len(o.keys) : o.keys[i] = QCLASS
      [] test = "notFrozen" -> ~o.frozen
      [] test = "promise" -> o.kind = "promise"
      [] test = "thenable" ->
           \E i \in 1..Len(o.keys) :
             o.keys[i] = "then" /\ IsOperation(o.vals[i])
      [] test = "errorShape" -> o.kind = "error"
      [] test = "arrayShape" -> o.kind = "array"
      [] test = "recordShape" ->
           /\ o.kind = "object"
           /\ StringNamed(o.keys) # {}
           /\ \A i \in StringNamed(o.keys) : ~IsOperation(o.vals[i])
      [] test = "remoteValidation" -> TRUE

TestOutcomes(test) ==
  CASE test = "registered" -> {REMOTE_STYLE}
    [] test = "null" -> {"null"}
    [] test = "sentinel" -> {"!reserved"}
    [] test = "notFrozen" -> {"!notFrozen"}
    [] test = "promise" -> {"promise"}
    [] test = "thenable" -> {"!thenable"}
    [] test = "errorShape" -> {"copyError", "!badError"}
    [] test = "arrayShape" -> {"copyArray", "!badArray"}
    [] test = "recordShape" -> {"copyRecord"}
    [] test = "remoteValidation" -> {REMOTE_STYLE, "!notRemotable"}

FirstMatch(h, reg, v) ==
  TestNames[CHOOSE i \in 1..Len(TestNames) :
              /\ TestMatches(h, reg, v, TestNames[i])
              /\ \A j \in 1..(i - 1) : ~TestMatches(h, reg, v, TestNames[j])]

\* C17 (decision order): for an object value passStyleOf applies its tests
\* in the order registered, null, sentinel field, not frozen, promise,
\* thenable, error shape, array shape, record shape, remote validation, and
\* the first test that matches decides; so a registered remotable is remote
\* whatever else holds of it, an unfrozen object with the sentinel field
\* fails as reserved and not as not frozen, and an unregistered unfrozen
\* object without the sentinel field fails whatever its shape.
C17_DecisionOrder ==
  [][(obs' # obs /\ obs'.fn = "passStyleOf" /\ obs'.val \in {Ref(1), Null})
      => LET v == obs'.val
             result == obs'.result
             first == FirstMatch(heap, registry, v)
         IN /\ result \in TestOutcomes(first)
            /\ (v = Ref(1) /\ 1 \in DOMAIN registry) => result = REMOTE_STYLE
            /\ (v = Ref(1) /\ 1 \notin DOMAIN registry /\ ~heap[1].frozen)
                 => IF KeyPos(heap[1].keys, QCLASS) # 0
                    THEN result = "!reserved"
                    ELSE result = "!notFrozen"]_vars

\* passStyleOf has failed as reserved on an unfrozen object with the
\* sentinel field
C17_Witness ==
  /\ Classified(Ref(1), "!reserved")
  /\ ~heap[1].frozen
  /\ 1 \notin DOMAIN registry
  /\ KeyPos(heap[1].keys, QCLASS) # 0

\* C18 (admissible symbol): passStyleOf fails, returning no pass-style, for
\* every symbol other than Symbol.asyncIterator.
C18_OnlyAsyncIterator ==
  (obs.fn = "passStyleOf" /\ obs.val.k = "symbol"
   /\ obs.val # SymbolAsyncIterator)
    => Throws(obs.result)

\* C19 (stable classification): once passStyleOf(v) has returned a
\* pass-style, every later passStyleOf(v) returns the same pass-style,
\* whatever Remotable, Far, serialize, unserialize and passStyleOf calls
\* happen in between; and passStyleOf does not change the registry.
C19_Stable ==
  /\ []((obs.fn = "passStyleOf" /\ ~Throws(obs.result))
          => passStyleOf(heap, registry, obs.val) = obs.result)
  /\ [][obs' # obs => registry' = registry]_vars

\* passStyleOf has said promise of object 1, and serialize and a Remotable
\* or Far call on that object have happened
C19_Witness ==
  /\ Classified(Ref(1), "promise")
  /\ ser.n >= 1
  /\ rem.called
  /\ rem.target = Ref(1)

(***************************************************************************)
(* C20: the order of the fields in the body                                *)
(***************************************************************************)
\* The field names of the outermost object of a text, in the order of the
\* text.
RECURSIVE FieldNamesInText(_, _)
FieldNamesInText(toks, depth) ==
  IF toks = <<>> THEN <<>>
  ELSE LET t == Head(toks)
           below == IF t \in {Punct("{"), Punct("[")} THEN depth + 1
                    ELSE IF t \in {Punct("}"), Punct("]")} THEN depth - 1
                    ELSE depth
       IN (IF depth = 1 /\ t.t = "string" /\ Len(toks) > 1
              /\ toks[2] = Punct(":")
           THEN <<t.s>> ELSE <<>>)
          \o FieldNamesInText(Tail(toks), below)

\* C20 (canonical field order): for every copyRecord of the input, whatever
\* its field names, the fields appear in the body text in the ascending
\* sort order of their names as strings, whatever the order in which the
\* fields were created.
C20_FieldOrder ==
  ser.ok =>
    LET tree == BodyTree IN
    /\ Style(ser.root) = "copyRecord"
         => FieldNamesInText(ser.body, 0) = SortNames(heap[ser.root.n].keys)
    /\ \A p \in Emitted :
         LET v == InAt(ser.root, p)
             node == TreeAt(tree, p)
         IN (Style(v) = "copyRecord" /\ ~IsEnvelope(node))
              => node.keys = SortNames(heap[v.n].keys)

(***************************************************************************)
(* C21: what unserialize returns is immutable                              *)
(***************************************************************************)
\* The revived objects that can be reached from the values of todo.
RECURSIVE ReachableOut(_, _)
ReachableOut(seen, todo) ==
  IF todo = <<>> THEN seen
  ELSE LET v == Head(todo) IN
       IF v.k # "out" \/ v.n \in seen THEN ReachableOut(seen, Tail(todo))
       ELSE ReachableOut(seen \cup {v.n}, Tail(todo) \o unser.out[v.n].vals)

\* C21 (deep freeze): when unserialize returns, the root and every array,
\* record and error object that can be reached from it, through ibid
\* backreferences and cycles too, is frozen.
C21_DeeplyFrozen ==
  (unser.called /\ unser.ok)
    => \A n \in ReachableOut({}, <<unser.val>>) : unser.out[n].frozen

\* a revived array that holds itself and another array
C21_Witness ==
  /\ unser.called
  /\ unser.ok
  /\ unser.val.k = "out"
  /\ unser.out[unser.val.n].vals[1] = unser.val
  /\ unser.out[unser.val.n].vals[2].k = "out"
  /\ unser.out[unser.val.n].vals[2] # unser.val

(***************************************************************************)
(* C22 to C24: what outlives a call                                        *)
(***************************************************************************)
\* The errorId texts of a body, in the order of the text.
RECURSIVE ErrorIdsInText(_)
ErrorIdsInText(toks) ==
  IF Len(toks) < 3 THEN <<>>
  ELSE (IF toks[1] = Tok("string", "errorId", 0) /\ toks[2] = Punct(":")
        THEN <<toks[3].s>> ELSE <<>>)
       \o ErrorIdsInText(Tail(toks))

\* The error ids the last serialize call drew, as the encoder drew them.
IssuedIds == SelectEvents(ser.log, {"errorId"})

\* C22 (error ids): over the serialize calls of one marshal the errorId
\* values written into error envelopes have strictly increasing counters in
\* emission order, no errorId is issued twice, and a second occurrence of
\* an error object in one message draws no new errorId.
C22_ErrorIdsFresh ==
  ser.done =>
    LET issued == IssuedIds IN
    /\ \A i \in 1..Len(issued) : issued[i].index = ser.before + i
    /\ \A i, j \in 1..Len(issued) :
         issued[i].val = issued[j].val => i = j
    /\ errorCount >= ser.before + Len(issued)
    /\ ser.ok =>
         /\ {ErrorIdsInText(ser.body)[i] :
               i \in 1..Len(ErrorIdsInText(ser.body))}
              = {ErrorIdText(issued[i].index) : i \in 1..Len(issued)}
         /\ Len(ErrorIdsInText(ser.body)) = Len(issued)
    /\ ser.prevOk =>
         \A k \in 1..Len(ErrorIdsInText(ser.prevBody)) :
           /\ ErrorIdsInText(ser.prevBody)[k]
                \in {ErrorIdText(n) : n \in 1..ser.before}
           /\ \A i \in 1..Len(issued) :
                ErrorIdsInText(ser.prevBody)[k] # ErrorIdText(issued[i].index)

\* the second serialize call of the array [Err, ErrB] has written the ids
\* 3 and 4, after 1 and 2 in the first call
C22_Witness ==
  /\ ser.done
  /\ ser.ok
  /\ ser.prevOk
  /\ heap[1] = RootObject("array", Err, ErrB)
  /\ ErrorIdsInText(ser.prevBody) = <<ErrorIdText(1), ErrorIdText(2)>>
  /\ ErrorIdsInText(ser.body) = <<ErrorIdText(3), ErrorIdText(4)>>

\* C23 (a failed call alters nothing): when serialize or unserialize fails,
\* no capdata and no value is returned, and the state that outlives the
\* call is as it was before the call; the error-id counter too, so that the
\* next errorId is the one that would have been issued without the failed
\* call.
C23_FailureAltersNothing ==
  /\ (ser.done /\ ~ser.ok)
       => /\ ser.body = <<>>
          /\ ser.slots = <<>>
          /\ errorCount = ser.before
  /\ (unser.called /\ ~unser.ok)
       => /\ unser.val = Undefined
          /\ unser.out = <<>>

\* C24 (the registry is left alone): getInterfaceOf(o) gives for every
\* object o the same after a serialize or unserialize call, failed or not,
\* as before it; the registry changes only in a Remotable or Far call that
\* returns, which enters its target.
C24_RegistryFrame ==
  [][/\ (ser'.n = ser.n + 1 \/ (unser'.called /\ ~unser.called))
          => \A n \in DOMAIN heap :
               getInterfaceOf(registry', Ref(n))
                 = getInterfaceOf(registry, Ref(n))
     /\ registry' # registry
          => /\ rem'.called
             /\ rem'.ok
             /\ DOMAIN registry' = DOMAIN registry \cup {rem'.target.n}
             /\ \A n \in DOMAIN registry : registry'[n] = registry[n]]_vars

\* serialize and unserialize have run while two remotables were registered
C24_Witness ==
  /\ DOMAIN registry = {FarTarget.n, Fresh.n}
  /\ ser.done
  /\ ser.ok
  /\ unser.called
  /\ unser.ok

(***************************************************************************)
(* C25: pureCopy                                                           *)
(***************************************************************************)
\* The copy's value at a path.
CopyChild(v, step) ==
  IF v.k # "out" THEN Missing
  ELSE LET o == pure.out[v.n] IN
       IF o.kind = "array" /\ step.name = "" /\ step.i \in 1..Len(o.vals)
       THEN o.vals[step.i]
       ELSE IF o.kind = "object" /\ KeyPos(o.keys, step.name) # 0
       THEN GetProp(o, step.name)
       ELSE Missing

RECURSIVE CopyAt(_, _)
CopyAt(v, path) ==
  IF path = <<>> THEN v ELSE CopyAt(CopyChild(v, Head(path)), Tail(path))

\* C25 (pureCopy): for every hardened input made of records, arrays, errors
\* and primitives pureCopy returns a copy in which two paths reach the same
\* object exactly when they do in the input, and in which no object is an
\* object of the input; and pureCopy fails when a reachable sub-value is a
\* remote or a promise.
C25_PureCopySharing ==
  pure.called =>
    LET root == pure.root
        paths == InPaths(root, MaxDepth)
    IN /\ PureData(root)
            => /\ pure.ok
               /\ \A p \in paths :
                    IF IsNonPrimitive(InAt(root, p))
                    THEN CopyAt(pure.val, p).k = "out"
                    ELSE CopyAt(pure.val, p) = InAt(root, p)
               /\ \A p, q \in paths :
                    (IsNonPrimitive(InAt(root, p))
                     /\ IsNonPrimitive(InAt(root, q)))
                      => ((InAt(root, p) = InAt(root, q))
                            <=> (CopyAt(pure.val, p) = CopyAt(pure.val, q)))
       /\ (\E p \in paths : IsCapability(InAt(root, p))) => ~pure.ok

(***************************************************************************)
(* C26: the order of the fields on both sides                              *)
(***************************************************************************)
\* C26 (field visitation order): for every copyRecord, whatever its field
\* names, the order in which the encoder visits the fields, and so gives
\* out ibid indices, is the order in which the fields are written to the
\* body, and the order in which fullRevive visits them after parsing.
\* Stated on the root record, for each two fields that hold different
\* objects other than the record itself.
C26_VisitOrder ==
  (ser.ok /\ Style(ser.root) = "copyRecord") =>
    LET o == heap[ser.root.n]
        text == FieldNamesInText(ser.body, 0)
        fields == {f \in {o.keys[i] : i \in 1..Len(o.keys)} :
                     /\ IsNonPrimitive(GetProp(o, f))
                     /\ GetProp(o, f) # ser.root}
    IN \A f, g \in fields :
         GetProp(o, f) # GetProp(o, g) =>
           /\ (EncIndex(GetProp(o, f)) < EncIndex(GetProp(o, g)))
                <=> (IndexIn(text, f) < IndexIn(text, g))
           /\ (unser.called /\ unser.ok) =>
                ((IndexIn(text, f) < IndexIn(text, g))
                   <=> (IndexIn(unser.ibids,
                                GetProp(unser.out[unser.val.n], f))
                          < IndexIn(unser.ibids,
                                    GetProp(unser.out[unser.val.n], g))))

(***************************************************************************)
(* C27 and C28: the tables of one call                                     *)
(***************************************************************************)
\* The values the reviver's table holds after the first k events of the
\* unserialize call, in the order they entered it.
TableAfter(k) ==
  LET entered == SelectEvents(SubSeq(unser.log, 1, k), {"register", "start"})
  IN [i \in 1..Len(entered) |-> entered[i].val]

\* C27 (tables of one call): each serialize call numbers its ibid indices
\* and its slot indices from 0, whatever calls came before on the same
\* marshal; in an unserialize call an ibid envelope resolves to a node
\* revived earlier in that same call and to nothing else.
C27_TablesPerCall ==
  /\ ser.done =>
       LET adds == SelectEvents(ser.log, {"add"})
           toSlot == SelectEvents(ser.log, {"valToSlot"})
       IN /\ \A i \in 1..Len(adds) : adds[i].index = i - 1
          /\ \A i \in 1..Len(toSlot) : toSlot[i].index = i - 1
          /\ ser.ok => Len(ser.slots) = Len(toSlot)
  /\ unser.called =>
       \A k \in 1..Len(unser.log) :
         unser.log[k].ev \in {"get", "cycle"} =>
           /\ unser.log[k].index + 1 \in 1..Len(TableAfter(k - 1))
           /\ unser.log[k].val = TableAfter(k - 1)[unser.log[k].index + 1]
           /\ unser.ok =>
                (unser.log[k].val.k = "out"
                   => unser.log[k].val.n \in 1..Len(unser.out))

\* the second serialize call on a marshal that has issued error ids, and
\* the unserialize of its capdata, which holds an ibid and a slot
C27_Witness ==
  /\ ser.n = 2
  /\ ser.ok
  /\ ser.prevOk
  /\ ser.before >= 1
  /\ Len(ser.slots) >= 1
  /\ SelectEvents(ser.log, {"add"})[1].index = 0
  /\ unser.called
  /\ unser.ok
  /\ \E k \in 1..Len(unser.log) : unser.log[k].ev = "get"

\* The arrays and records started and not finished after the first k
\* events of the unserialize call, the innermost last.
RECURSIVE OpenAfter(_)
OpenAfter(k) ==
  IF k = 0 THEN <<>>
  ELSE LET e == unser.log[k]
           open == OpenAfter(k - 1)
       IN IF e.ev = "start" THEN Append(open, e.val)
          ELSE IF e.ev = "finish"
          THEN SelectSeq(open, LAMBDA v : v # e.val)
          ELSE open

\* C28 (in-construction discipline): at every point of an unserialize call
\* the entries marked unfinished are the arrays and records that enclose
\* the node being revived, innermost last; errors and slot results are
\* never marked; every marked entry is in the positional list; and when
\* unserialize returns the marked set is empty.
C28_UnfinishedChain ==
  unser.called =>
    LET log == unser.log
        marked(k) == {OpenAfter(k)[i] : i \in 1..Len(OpenAfter(k))}
    IN /\ \A k \in 1..Len(log) :
            /\ log[k].ev = "finish"
                 => /\ OpenAfter(k - 1) # <<>>
                    /\ log[k].val = OpenAfter(k - 1)[Len(OpenAfter(k - 1))]
            /\ log[k].ev = "start"
                 => /\ log[k].val.k = "out"
                    /\ log[k].val \notin marked(k - 1)
            /\ log[k].ev = "register"
                 => \A j \in 1..Len(log) :
                      log[j].ev = "start" => log[j].val # log[k].val
            /\ log[k].ev \in {"get", "cycle"}
                 => (log[k].ev = "cycle" <=> log[k].val \in marked(k - 1))
            /\ marked(k) \subseteq
                 {TableAfter(k)[i] : i \in 1..Len(TableAfter(k))}
       /\ unser.unfinishedIbids = marked(Len(log))
       /\ unser.unfinishedIbids
            \subseteq {unser.ibids[i] : i \in 1..Len(unser.ibids)}
       /\ unser.ok => unser.unfinishedIbids = {}

\* an array was started and finished inside another, a slot result was
\* registered, and unserialize returned
C28_Witness ==
  /\ unser.called
  /\ unser.ok
  /\ \E k \in 1..Len(unser.log) : Len(OpenAfter(k)) = 2
  /\ \E k \in 1..Len(unser.log) :
       unser.log[k].ev = "register" /\ unser.log[k].val.k = "ref"

(***************************************************************************)
(* C29 and C30: the encoder's walk                                         *)
(***************************************************************************)
\* C29 (termination on cycles): serialize returns for every frozen graph,
\* one with reference cycles too; the encoder descends into each distinct
\* non-primitive at most once, and a reference from inside an array or
\* record back to one that encloses it is emitted as an ibid envelope with
\* the index of that ancestor, below which nothing is emitted.
C29_CyclesEndInIbid ==
  ser.done =>
    LET adds == SelectEvents(ser.log, {"add"})
        tree == BodyTree
        paths == InPaths(ser.root, MaxDepth)
    IN /\ Passable(ser.root) => ser.ok
       /\ \A i, j \in 1..Len(adds) : adds[i].val = adds[j].val => i = j
       /\ ser.ok =>
            \A p \in paths : \A k \in 0..(Len(p) - 1) :
              (/\ TreeAt(tree, p) # JMissing
               /\ IsCopyContainer(InAt(ser.root, p))
               /\ InAt(ser.root, SubSeq(p, 1, k)) = InAt(ser.root, p))
                => /\ IsIbid(TreeAt(tree, p))
                   /\ EnvelopeIndex(TreeAt(tree, p))
                        = EncIndex(InAt(ser.root, SubSeq(p, 1, k)))
                   /\ \A q \in paths :
                        IsProperPrefix(p, q) => TreeAt(tree, q) = JMissing

\* serialize has returned for a record that holds two arrays holding each
\* other: the inner one's reference back carries the index of the outer
C29_Witness ==
  /\ ser.ok
  /\ heap[1] = RootObject("ab", ArrA, CycA)
  /\ EncIndex(CycA) = 2
  /\ TreeAt(BodyTree, <<Step("b", 0), Step("", 1), Step("", 1)>>)
       = ObjectFromEntries(<<QCLASS, "index">>, <<JStr("ibid"), JNum(2)>>)

\* C30 (valToSlot once per capability): in a serialize call valToSlot is
\* called once for each distinct remote or promise, in the order of their
\* first visit; the slots of the capdata are as many as the distinct
\* remotes and promises that can be reached from the root; and every slot
\* envelope of the body has an index below the length of slots.
C30_ValToSlotOnce ==
  ser.done =>
    LET toSlot == SelectEvents(ser.log, {"valToSlot"})
        caps == Capabilities(ser.root)
        tree == BodyTree
        paths == InPaths(ser.root, MaxDepth)
    IN /\ \A i, j \in 1..Len(toSlot) : toSlot[i].val = toSlot[j].val => i = j
       /\ ser.ok =>
            /\ Len(toSlot) = Len(caps)
            /\ \A i \in 1..Len(caps) : toSlot[i].val = caps[i]
            /\ Len(ser.slots)
                 = Cardinality({InAt(ser.root, p) :
                                  p \in {q \in paths :
                                           IsCapability(InAt(ser.root, q))}})
            /\ \A p \in paths :
                 IsSlot(TreeAt(tree, p))
                   => EnvelopeIndex(TreeAt(tree, p)) \in 0..(Len(ser.slots) - 1)

\* a promise that is met twice: one call of valToSlot, one slot, and the
\* second place holds an ibid envelope
C30_Witness ==
  /\ ser.ok
  /\ heap[1] = RootObject("array", Prom, Prom)
  /\ SelectEvents(ser.log, {"valToSlot"}) = <<Event("valToSlot", Prom, 0)>>
  /\ ser.slots = <<convertValToSlot(Prom)>>
  /\ IsIbid(TreeAt(BodyTree, <<Step("", 2)>>))

=============================================================================
